---- MODULE Spec2Model ----
(***************************************************************************)
(* MCP2515 SPI protocol engine (McpDecoder), the CS3 dispatcher            *)
(* (Cs3Handler), the McpIO wiring of the engine's TX-frame callback to the *)
(* dispatcher, and the sensor poller.                                      *)
(* Bytes are naturals 0..255; the register file is a function on 0..255.   *)
(***************************************************************************)
EXTENDS Integers, Sequences, FiniteSets, TLC

VARIABLES
    state,           \* McpDecoder.state
    register,        \* McpDecoder.register (auto-increment address)
    bitModifyMask,   \* McpDecoder.bitModifyMask
    txHeader,        \* McpDecoder.txHeader
    txData,          \* McpDecoder.txData
    txDlc,           \* McpDecoder.txDlc
    registers,       \* McpDecoder.registers (Uint8Array(256))
    rxQueue,         \* McpDecoder.rxQueue
    intPinAsserted,  \* McpDecoder.intPinAsserted
    sensorStates,    \* McpIO.sensorStates (ids mapped to true)
    trainLights,     \* Cs3Handler.trainLights (train id -> light flag)
    lightSeen,       \* observer: kind of the latest LIGHT command per train
    intLine,         \* observer: value last passed to the interrupt-change callback
    last,            \* observer: what the last completed operation did
    burst,           \* observer: data bytes so far in the current WRITE / READ
    fifoExpect,      \* observer: frames queued and not yet seen loaded, in order
    fifoOk           \* observer: every load so far was of the oldest such frame

vars == <<state, register, bitModifyMask, txHeader, txData, txDlc, registers,
          rxQueue, intPinAsserted, sensorStates, trainLights, lightSeen,
          intLine, last, burst, fifoExpect, fifoOk>>

-----------------------------------------------------------------------------
(* Program constants (mcp_decoder.ts)                                       *)

INSTRUCTION_WRITE == 2
INSTRUCTION_READ == 3
INSTRUCTION_BIT_MODIFY == 5
INSTRUCTION_READ_STATUS == 160
TXB0_SIDH == 49
RXB0_SIDH == 97
CANINTE == 43
CANINTF == 44
TXB0CTRL == 48
TXB1CTRL == 64
TXB2CTRL == 80
RX0IF == 1
RX1IF == 2
TX0IF == 4
TX1IF == 8
TX2IF == 16

(* Program constants (cs3 handler)                                          *)
SYSTEM_CMD == 0
SPEED_CMD == 4
DIRECTION_CMD == 5
LIGHT_CMD == 6
SWITCH_CMD == 11
SENSOR_CMD == 17
STOP_SUBCMD == 0
GO_SUBCMD == 1
HALT_SUBCMD == 2
CS3_MAX_SPEED == 1000
SIM_MAX_SPEED == 14

-----------------------------------------------------------------------------
(* Bounds of the model                                                      *)

MaxQueue == 2        \* frames waiting in rxQueue
MaxBurst == 2        \* data bytes of one WRITE / READ transaction
MaxTxQueue == 1      \* frames waiting in rxQueue in the TX-traffic specification
MaxAuto == 200       \* data bytes of the long WRITE burst of the burst specification

-----------------------------------------------------------------------------
(* Bit operations on naturals, as JavaScript computes them on the values    *)
(* that occur here (all below 2^31).                                        *)

RECURSIVE BitAnd(_, _)
BitAnd(a, b) ==
    IF a = 0 \/ b = 0 THEN 0
    ELSE (a % 2) * (b % 2) + 2 * BitAnd(a \div 2, b \div 2)

RECURSIVE BitOr(_, _)
BitOr(a, b) ==
    IF a = 0 THEN b
    ELSE IF b = 0 THEN a
    ELSE (IF a % 2 = 1 \/ b % 2 = 1 THEN 1 ELSE 0) + 2 * BitOr(a \div 2, b \div 2)

Shl(a, n) == a * (2 ^ n)
Shr(a, n) == a \div (2 ^ n)
\* Faulty variant of AndNot: the masked bits are kept
AndNotKeep(a, mask) == a

\* Faulty variant of AndNot: the masked bits are toggled
AndNotToggle(a, mask) == a + (mask % 256) - 2 * BitAnd(a, mask % 256)

\* byte & ~mask, for a byte and a mask in 0..255
AndNot(a, mask) == BitAnd(a, 255 - (mask % 256))

Byte == 0..255

\* CanFrame
Frame(id, eid, dlc, data) == [id |-> id, eid |-> eid, dlc |-> dlc, data |-> data]

-----------------------------------------------------------------------------
(* CS3 dispatcher: what the TX-frame consumer queues back                   *)

decodeCommand(frame) ==
    BitOr(BitAnd(Shl(frame.id, 1), 254), BitAnd(Shr(frame.eid, 17), 1))

\* Faulty variant of makeAck: bit 17 is set instead of bit 16
makeAckBit17(frame) ==
    Frame(frame.id, BitOr(frame.eid, 131072), frame.dlc, frame.data)

makeAck(frame) ==
    Frame(frame.id, BitOr(frame.eid, 65536), frame.dlc, frame.data)

\* The reply frames of Cs3Handler.handleTxFrame: one ACK, two for SWITCH.
handleTxFrame(frame) ==
    LET command == decodeCommand(frame)
        ack == makeAck(frame)
    IN  IF command = SWITCH_CMD THEN <<ack, ack>> ELSE <<ack>>

\* data[i] (0-based) as a bitwise operator sees it: a missing element is 0
DataOr0(data, i) == IF i + 1 <= Len(data) THEN data[i + 1] ELSE 0

\* The big-endian value of data[0..3], unsigned (>>> 0); data[0] stays below
\* 128 in the inputs used here
readId(data) ==
    Shl(DataOr0(data, 0), 24) + Shl(DataOr0(data, 1), 16)
    + Shl(DataOr0(data, 2), 8) + DataOr0(data, 3)

\* Math.round((cs3Speed / 1000) * 14): the quotient is a half only at 250
\* and 750, where the floating-point product is exact, and Math.round takes
\* halves upwards.
\* Faulty variant of cs3SpeedToSim: the quotient is truncated
cs3SpeedToSimTrunc(cs3Speed) ==
    IF cs3Speed <= 0 THEN 0
    ELSE IF cs3Speed >= CS3_MAX_SPEED THEN SIM_MAX_SPEED
    ELSE (cs3Speed * SIM_MAX_SPEED) \div CS3_MAX_SPEED

cs3SpeedToSim(cs3Speed) ==
    IF cs3Speed <= 0 THEN 0
    ELSE IF cs3Speed >= CS3_MAX_SPEED THEN SIM_MAX_SPEED
    ELSE (2 * cs3Speed * SIM_MAX_SPEED + CS3_MAX_SPEED) \div (2 * CS3_MAX_SPEED)

\* Faulty variant of decodeSwitchId: ids counted from 0
decodeSwitchIdFrom0(encodedId) == encodedId - 12288

decodeSwitchId(encodedId) == encodedId - 12288 + 1

\* A call made on the controller
Call(op, args) == [op |-> op, args |-> args]

\* HandleResult, with what the handler did besides: the train-light map as
\* it leaves it and the controller calls it made, in order.
HandleResult(immediate, delayed, lights, calls) ==
    [immediate |-> immediate, delayed |-> delayed,
     trainLights |-> lights, calls |-> calls]

\* Map.get(trainId) ?? false
lightOf(lights, trainId) ==
    IF trainId \in DOMAIN lights THEN lights[trainId] ELSE FALSE

\* Map.set(trainId, on)
lightSet(lights, trainId, on) ==
    [t \in (DOMAIN lights) \cup {trainId} |->
        IF t = trainId THEN on ELSE lights[t]]

\* Faulty variant of handleSystem: HALT is not forwarded
handleSystemNoHalt(lights, frame, ack) ==
    LET calls ==
            IF Len(frame.data) < 5 THEN <<>>
            ELSE CASE frame.data[5] = STOP_SUBCMD -> <<Call("stop", <<>>)>>
                   [] frame.data[5] = GO_SUBCMD   -> <<Call("go", <<>>)>>
                   [] OTHER                       -> <<>>
    IN  HandleResult(<<ack>>, <<>>, lights, calls)

handleSystem(lights, frame, ack) ==
    LET calls ==
            IF Len(frame.data) < 5 THEN <<>>
            ELSE CASE frame.data[5] = STOP_SUBCMD -> <<Call("stop", <<>>)>>
                   [] frame.data[5] = GO_SUBCMD   -> <<Call("go", <<>>)>>
                   [] frame.data[5] = HALT_SUBCMD -> <<Call("halt", <<>>)>>
                   [] OTHER                       -> <<>>
    IN  HandleResult(<<ack>>, <<>>, lights, calls)

\* Faulty variant of handleSpeed: a speed query is treated as a speed 0 command
handleSpeedNoQuery(lights, frame, ack) ==
    LET trainId == readId(frame.data)
        cs3Speed == BitOr(Shl(DataOr0(frame.data, 4), 8),
                          DataOr0(frame.data, 5))
        simSpeed == cs3SpeedToSim(cs3Speed)
        light == lightOf(lights, trainId)
    IN  HandleResult(<<ack>>, <<>>, lights,
           <<Call("setTrainSpeed", <<trainId, simSpeed, light>>)>>)

handleSpeed(lights, frame, ack) ==
    LET trainId == readId(frame.data)
    IN  IF frame.dlc <= 4
        THEN HandleResult(<<ack>>, <<>>, lights, <<>>)
        ELSE LET cs3Speed == BitOr(Shl(DataOr0(frame.data, 4), 8),
                                   DataOr0(frame.data, 5))
                 simSpeed == cs3SpeedToSim(cs3Speed)
                 light == lightOf(lights, trainId)
             IN  HandleResult(<<ack>>, <<>>, lights,
                    <<Call("setTrainSpeed", <<trainId, simSpeed, light>>)>>)

handleDirection(lights, frame, ack) ==
    HandleResult(<<ack>>, <<>>, lights,
                 <<Call("reverseTrain", <<readId(frame.data)>>)>>)

\* frame.data[5] !== 0 is true of a missing element
handleLight(lights, frame, ack) ==
    LET trainId == readId(frame.data)
        on == IF Len(frame.data) >= 6 THEN frame.data[6] # 0 ELSE TRUE
    IN  HandleResult(<<ack>>, <<>>, lightSet(lights, trainId, on), <<>>)

\* Faulty variant of handleSwitch: no delayed ACK
handleSwitchNoDelayed(lights, frame, ack) ==
    LET encodedId == readId(frame.data)
        switchId == decodeSwitchId(encodedId)
        direction == IF DataOr0(frame.data, 4) # 0 THEN "Straight" ELSE "Curve"
    IN  HandleResult(<<ack>>, <<>>, lights,
            <<Call("changeSwitchDirection", <<switchId, direction>>)>>)

\* position ? Straight : Curve, a missing element being falsy
handleSwitch(lights, frame, ack) ==
    LET encodedId == readId(frame.data)
        switchId == decodeSwitchId(encodedId)
        direction == IF DataOr0(frame.data, 4) # 0 THEN "Straight" ELSE "Curve"
    IN  HandleResult(<<ack>>, <<ack>>, lights,
            <<Call("changeSwitchDirection", <<switchId, direction>>)>>)

\* Cs3Handler.handleTxFrame with its HandleResult, a controller being set
handleTxFrameResult(lights, frame) ==
    LET command == decodeCommand(frame)
        ack == makeAck(frame)
    IN  CASE command = SYSTEM_CMD    -> handleSystem(lights, frame, ack)
          [] command = SPEED_CMD     -> handleSpeed(lights, frame, ack)
          [] command = DIRECTION_CMD -> handleDirection(lights, frame, ack)
          [] command = LIGHT_CMD     -> handleLight(lights, frame, ack)
          [] command = SWITCH_CMD    -> handleSwitch(lights, frame, ack)
          [] OTHER -> HandleResult(<<ack>>, <<>>, lights, <<>>)

\* Cs3Handler.handleTxFrame as McpIO imports it, a controller being set: the
\* reply array, the train-light map as the handler leaves it and the
\* controller calls it made.  SYSTEM is only logged; SPEED, DIRECTION, LIGHT
\* and SWITCH act as handleSpeed, handleDirection, handleLight and
\* handleSwitch do.
handleTxFrameArray(lights, frame) ==
    LET command == decodeCommand(frame)
        ack == makeAck(frame)
        acted == CASE command = SPEED_CMD     -> handleSpeed(lights, frame, ack)
                   [] command = DIRECTION_CMD -> handleDirection(lights, frame, ack)
                   [] command = LIGHT_CMD     -> handleLight(lights, frame, ack)
                   [] command = SWITCH_CMD    -> handleSwitch(lights, frame, ack)
                   [] OTHER -> HandleResult(<<ack>>, <<>>, lights, <<>>)
    IN  [frames |-> handleTxFrame(frame),
         trainLights |-> acted.trainLights,
         calls |-> acted.calls]

\* Faulty variant of makeSensorEvent: the id bytes are little-endian
makeSensorEventLittle(sensorId, oldState, newState) ==
    Frame(8,
          BitOr(BitOr(Shl(1, 17), BitAnd(sensorId, 65535)), 65536),
          8,
          << BitAnd(sensorId, 255), BitAnd(Shr(sensorId, 8), 255),
             BitAnd(Shr(sensorId, 16), 255), BitAnd(Shr(sensorId, 24), 255),
             IF oldState THEN 1 ELSE 0, IF newState THEN 1 ELSE 0, 0, 0 >>)

\* Cs3Handler.makeSensorEvent
makeSensorEvent(sensorId, oldState, newState) ==
    Frame(8,
          BitOr(BitOr(Shl(1, 17), BitAnd(sensorId, 65535)), 65536),
          8,
          << BitAnd(Shr(sensorId, 24), 255), BitAnd(Shr(sensorId, 16), 255),
             BitAnd(Shr(sensorId, 8), 255), BitAnd(sensorId, 255),
             IF oldState THEN 1 ELSE 0, IF newState THEN 1 ELSE 0, 0, 0 >>)

-----------------------------------------------------------------------------
(* McpDecoder.  The operators below transform a record m holding the        *)
(* decoder's fields together with what the current operation has produced   *)
(* so far: rx (response byte), frame (the decoded frame, if any), intCalls  *)
(* (values passed to the interrupt-change callback, in order), loads (the   *)
(* frames loaded into RXB0, each with CANINTF.RX0IF as it was at the load), *)
(* queued (frames appended to rxQueue).                                     *)

shouldTriggerInterrupt(m) ==
    BitAnd(m.registers[CANINTF], m.registers[CANINTE]) # 0

\* Faulty variant of updateIntPin: the callback is invoked without change detection
updateIntPinNoEdge(m) ==
    LET shouldAssert == shouldTriggerInterrupt(m)
    IN  [m EXCEPT !.intPinAsserted = shouldAssert,
                  !.intCalls = Append(@, shouldAssert)]

updateIntPin(m) ==
    LET shouldAssert == shouldTriggerInterrupt(m)
    IN  IF shouldAssert # m.intPinAsserted
        THEN [m EXCEPT !.intPinAsserted = shouldAssert,
                       !.intCalls = Append(@, shouldAssert)]
        ELSE m

\* frame.data[i] (0-based) as a Uint8Array element stores it
DataByte(frame, i) ==
    IF i + 1 <= Len(frame.data) THEN frame.data[i + 1] % 256 ELSE 0

\* Faulty variant of rxb0Registers: the two low extended-id bytes are swapped
rxb0RegistersBad(regs, frame) ==
    LET hdr == [regs EXCEPT
                  ![RXB0_SIDH]     = BitAnd(Shr(frame.id, 3), 255),
                  ![RXB0_SIDH + 1] = BitOr(BitOr(Shl(BitAnd(frame.id, 7), 5), 8),
                                           BitAnd(Shr(frame.eid, 16), 3)) % 256,
                  ![RXB0_SIDH + 2] = BitAnd(frame.eid, 255),
                  ![RXB0_SIDH + 3] = BitAnd(Shr(frame.eid, 8), 255),
                  ![RXB0_SIDH + 4] = frame.dlc % 256]
    IN  [a \in Byte |->
            IF a >= RXB0_SIDH + 5 /\ a < RXB0_SIDH + 5 + frame.dlc
            THEN DataByte(frame, a - (RXB0_SIDH + 5))
            ELSE hdr[a]]

\* for (let i = 0; i < frame.dlc; i++) registers[RXB0_SIDH + 5 + i] = frame.data[i]
RECURSIVE rxb0Data(_, _, _)
rxb0Data(regs, frame, i) ==
    IF i >= frame.dlc THEN regs
    ELSE rxb0Data([regs EXCEPT ![RXB0_SIDH + 5 + i] = DataByte(frame, i)],
                  frame, i + 1)

\* The register file after the frame is encoded into RXB0
rxb0Registers(regs, frame) ==
    rxb0Data([regs EXCEPT
                ![RXB0_SIDH]     = BitAnd(Shr(frame.id, 3), 255),
                ![RXB0_SIDH + 1] = BitOr(BitOr(Shl(BitAnd(frame.id, 7), 5), 8),
                                         BitAnd(Shr(frame.eid, 16), 3)) % 256,
                ![RXB0_SIDH + 2] = BitAnd(Shr(frame.eid, 8), 255),
                ![RXB0_SIDH + 3] = BitAnd(frame.eid, 255),
                ![RXB0_SIDH + 4] = frame.dlc % 256],
             frame, 0)

\* Faulty variant of loadFrameToRxb0: the interrupt line is not recomputed
loadFrameToRxb0NoInt(m, frame) ==
    [m EXCEPT
        !.registers = [rxb0Registers(m.registers, frame) EXCEPT
                          ![CANINTF] = BitOr(@, RX0IF)],
        !.loads = Append(@, [frame |-> frame,
                             rx0if |-> BitAnd(m.registers[CANINTF], RX0IF)])]

loadFrameToRxb0(m, frame) ==
    updateIntPin([m EXCEPT
        !.registers = [rxb0Registers(m.registers, frame) EXCEPT
                          ![CANINTF] = BitOr(@, RX0IF)],
        !.loads = Append(@, [frame |-> frame,
                             rx0if |-> BitAnd(m.registers[CANINTF], RX0IF)])])

\* Faulty variant of tryLoadNextRxFrame: a queued frame is never loaded
tryLoadNextRxFrameNever(m) == m

\* Faulty variant of tryLoadNextRxFrame: the newest queued frame is taken
tryLoadNextRxFrameLifo(m) ==
    IF BitAnd(m.registers[CANINTF], RX0IF) = 0 /\ Len(m.rxQueue) > 0
    THEN loadFrameToRxb0([m EXCEPT !.rxQueue = SubSeq(@, 1, Len(@) - 1)],
                         m.rxQueue[Len(m.rxQueue)])
    ELSE m

\* Faulty variant of tryLoadNextRxFrame: RXB0 is not checked to be free
tryLoadNextRxFrameNoCheck(m) ==
    IF Len(m.rxQueue) > 0
    THEN loadFrameToRxb0([m EXCEPT !.rxQueue = Tail(@)], Head(m.rxQueue))
    ELSE m

tryLoadNextRxFrame(m) ==
    IF BitAnd(m.registers[CANINTF], RX0IF) = 0 /\ Len(m.rxQueue) > 0
    THEN loadFrameToRxb0([m EXCEPT !.rxQueue = Tail(@)], Head(m.rxQueue))
    ELSE m

\* Faulty variant of queueRxFrames: the TX data accumulator is reset
queueRxFramesReset(m, frames) ==
    tryLoadNextRxFrame([m EXCEPT !.rxQueue = @ \o frames,
                                 !.queued = @ \o frames,
                                 !.txData = <<>>])

queueRxFrames(m, frames) ==
    tryLoadNextRxFrame([m EXCEPT !.rxQueue = @ \o frames,
                                 !.queued = @ \o frames])

\* McpIO's TX-frame callback with the Cs3Handler that returns a HandleResult
\* (immediate and delayed lists): the handler acts on the frame, and
\* ackFrames.length, undefined on a HandleResult, is not > 0, so
\* queueRxFrames is not called.
txFrameCallbackResult(m, frame) ==
    LET result == handleTxFrameResult(m.trainLights, frame)
    IN  [m EXCEPT !.trainLights = result.trainLights,
                  !.seen = <<[intPinAsserted |-> m.intPinAsserted,
                              canintf |-> m.registers[CANINTF],
                              intCalls |-> m.intCalls,
                              state |-> m.state]>>,
                  !.calls = @ \o result.calls,
                  !.result = <<[immediate |-> result.immediate,
                                delayed |-> result.delayed]>>]

\* McpDecoder.setRegister: the byte is stored at addr & 0xFF of the Uint8Array
\* and nothing else is done: the interrupt line is not recomputed and no
\* queued frame is loaded.
setRegister(m, addr, value) ==
    [m EXCEPT !.registers[addr % 256] = value % 256]

\* McpDecoder.getRegister
getRegister(m, addr) == m.registers[addr % 256]

\* McpIO's TX-frame callback: dispatch to the handler McpIO imports, then
\* queue the array it returns.  handleTxFrameArray gives that array and what
\* the handler did besides (train lights, controller calls); result is the
\* array returned; seen records the decoder as the consumer finds it when the
\* frame is delivered.
txFrameCallback(m, frame) ==
    LET handled == handleTxFrameArray(m.trainLights, frame)
        ackFrames == handled.frames
        m1 == [m EXCEPT !.trainLights = handled.trainLights,
                        !.seen = <<[intPinAsserted |-> m.intPinAsserted,
                                    canintf |-> m.registers[CANINTF],
                                    intCalls |-> m.intCalls,
                                    state |-> m.state]>>,
                        !.calls = @ \o handled.calls,
                        !.result = <<ackFrames>>]
    IN  IF Len(ackFrames) > 0 THEN queueRxFrames(m1, ackFrames) ELSE m1

\* Faulty variant of isInstruction: READ_STATUS is not recognised
isInstructionNoStatus(byte) ==
    \/ byte = INSTRUCTION_WRITE
    \/ byte = INSTRUCTION_READ
    \/ byte = INSTRUCTION_BIT_MODIFY

\* Faulty variant of incrementRegister: the address stops at 0xFF
incrementRegisterStop(r) == IF r >= 255 THEN 255 ELSE r + 1

\* (this.register + 1) & 0xFF
incrementRegister(r) == (r + 1) % 256

isInstruction(byte) ==
    \/ byte = INSTRUCTION_WRITE
    \/ byte = INSTRUCTION_READ
    \/ byte = INSTRUCTION_BIT_MODIFY
    \/ byte = INSTRUCTION_READ_STATUS

\* Faulty variant of handleInstruction: the opcode is echoed as the response
handleInstructionEcho(m, txByte) ==
    LET next == CASE txByte = INSTRUCTION_WRITE       -> "WRITE_ADDR"
                  [] txByte = INSTRUCTION_READ        -> "READ_ADDR"
                  [] txByte = INSTRUCTION_BIT_MODIFY  -> "BIT_MODIFY_ADDR"
                  [] txByte = INSTRUCTION_READ_STATUS -> "READ_STATUS_DUMMY"
                  [] OTHER                            -> m.state
    IN  [m EXCEPT !.state = next, !.rx = txByte]

\* Faulty variant of handleInstruction: an unknown byte starts a READ_STATUS
handleInstructionDefaultStatus(m, txByte) ==
    LET next == CASE txByte = INSTRUCTION_WRITE       -> "WRITE_ADDR"
                  [] txByte = INSTRUCTION_READ        -> "READ_ADDR"
                  [] txByte = INSTRUCTION_BIT_MODIFY  -> "BIT_MODIFY_ADDR"
                  [] OTHER                            -> "READ_STATUS_DUMMY"
    IN  [m EXCEPT !.state = next, !.rx = 0]

handleInstruction(m, txByte) ==
    LET next == CASE txByte = INSTRUCTION_WRITE       -> "WRITE_ADDR"
                  [] txByte = INSTRUCTION_READ        -> "READ_ADDR"
                  [] txByte = INSTRUCTION_BIT_MODIFY  -> "BIT_MODIFY_ADDR"
                  [] txByte = INSTRUCTION_READ_STATUS -> "READ_STATUS_DUMMY"
                  [] OTHER                            -> m.state
    IN  [m EXCEPT !.state = next, !.rx = 0]

Bit(v, n) == BitAnd(Shr(v, n), 1)

\* Faulty variant of computeStatus: TXB1CTRL and TXB2CTRL exchanged places
computeStatusSwapped(m) ==
    LET canintf == m.registers[CANINTF]
    IN  BitOr(Bit(canintf, 0),
        BitOr(Shl(Bit(canintf, 1), 1),
        BitOr(Shl(Bit(m.registers[TXB0CTRL], 3), 2),
        BitOr(Shl(Bit(canintf, 2), 3),
        BitOr(Shl(Bit(m.registers[TXB2CTRL], 3), 4),
        BitOr(Shl(Bit(canintf, 3), 5),
        BitOr(Shl(Bit(m.registers[TXB1CTRL], 3), 6),
              Shl(Bit(canintf, 4), 7))))))))

computeStatus(m) ==
    LET canintf == m.registers[CANINTF]
    IN  BitOr(Bit(canintf, 0),
        BitOr(Shl(Bit(canintf, 1), 1),
        BitOr(Shl(Bit(m.registers[TXB0CTRL], 3), 2),
        BitOr(Shl(Bit(canintf, 2), 3),
        BitOr(Shl(Bit(m.registers[TXB1CTRL], 3), 4),
        BitOr(Shl(Bit(canintf, 3), 5),
        BitOr(Shl(Bit(m.registers[TXB2CTRL], 3), 6),
              Shl(Bit(canintf, 4), 7))))))))

\* Faulty variant of txFrameOf: the id is taken from SIDH alone
txFrameOfSidhOnly(m) ==
    LET sidh == m.txHeader[1]
        sidl == m.txHeader[2]
        eid8 == m.txHeader[3]
        eid0 == m.txHeader[4]
    IN  Frame(Shl(sidh, 3),
              BitOr(BitOr(Shl(BitAnd(sidl, 3), 16), Shl(eid8, 8)), eid0),
              m.txDlc,
              m.txData)

\* The frame emitCanFrame builds from the accumulated header and data
txFrameOf(m) ==
    LET sidh == m.txHeader[1]
        sidl == m.txHeader[2]
        eid8 == m.txHeader[3]
        eid0 == m.txHeader[4]
    IN  Frame(BitOr(Shl(sidh, 3), BitAnd(Shr(sidl, 5), 7)),
              BitOr(BitOr(Shl(BitAnd(sidl, 3), 16), Shl(eid8, 8)), eid0),
              m.txDlc,
              m.txData)

\* Faulty variant of emitCanFrame: the decoder does not return to IDLE
emitCanFrameNoIdle(m) ==
    LET frame == txFrameOf(m)
        m1 == updateIntPin([m EXCEPT !.registers[CANINTF] = BitOr(@, TX0IF)])
        m2 == txFrameCallback(m1, frame)
    IN  [m2 EXCEPT !.rx = 0, !.frame = <<frame>>]

\* Faulty variant of emitCanFrame: the frame is delivered before TX0IF is set
emitCanFrameLate(m) ==
    LET frame == txFrameOf(m)
        m1 == txFrameCallback(m, frame)
        m2 == updateIntPin([m1 EXCEPT !.registers[CANINTF] = BitOr(@, TX0IF)])
    IN  [m2 EXCEPT !.state = "IDLE", !.rx = 0, !.frame = <<frame>>]

emitCanFrame(m) ==
    LET frame == txFrameOf(m)
        m1 == updateIntPin([m EXCEPT !.registers[CANINTF] = BitOr(@, TX0IF)])
        m2 == txFrameCallback(m1, frame)
    IN  [m2 EXCEPT !.state = "IDLE", !.rx = 0, !.frame = <<frame>>]

\* McpDecoder.emitCanFrame, the TX-frame callback being McpIO's with the
\* Cs3Handler that returns a HandleResult
emitCanFrameResult(m) ==
    LET frame == txFrameOf(m)
        m1 == updateIntPin([m EXCEPT !.registers[CANINTF] = BitOr(@, TX0IF)])
        m2 == txFrameCallbackResult(m1, frame)
    IN  [m2 EXCEPT !.state = "IDLE", !.rx = 0, !.frame = <<frame>>]

\* McpDecoder.decode
decode(m, txByte) ==
    CASE m.state = "IDLE" ->
            handleInstruction(m, txByte)
      [] m.state = "WRITE_ADDR" ->
            IF txByte = TXB0_SIDH
            THEN [m EXCEPT !.register = txByte, !.state = "TX_HEADER",
                           !.txHeader = <<>>, !.rx = 0]
            ELSE [m EXCEPT !.register = txByte, !.state = "WRITE_DATA", !.rx = 0]
      [] m.state = "WRITE_DATA" ->
            IF isInstruction(txByte)
            THEN handleInstruction(m, txByte)
            ELSE LET addr == m.register % 256
                     m1 == [m EXCEPT !.registers[addr] = txByte]
                     m2 == IF m.register = TXB0CTRL /\ BitAnd(txByte, 8) # 0
                           THEN [m1 EXCEPT !.registers[TXB0CTRL] = AndNot(@, 8)]
                           ELSE m1
                     m3 == IF addr = CANINTF
                           THEN tryLoadNextRxFrame(updateIntPin(m2))
                           ELSE m2
                 IN  [m3 EXCEPT !.register = incrementRegister(m.register), !.rx = 0]
      [] m.state = "TX_HEADER" ->
            LET m1 == [m EXCEPT
                         !.registers[(TXB0_SIDH + Len(m.txHeader)) % 256] = txByte,
                         !.txHeader = Append(@, txByte)]
            IN  IF Len(m1.txHeader) = 5
                THEN LET m2 == [m1 EXCEPT !.txDlc = BitAnd(m1.txHeader[5], 15)]
                     IN  IF m2.txDlc = 0
                         THEN emitCanFrame(m2)
                         ELSE [m2 EXCEPT !.txData = <<>>, !.state = "TX_DATA",
                                         !.rx = 0]
                ELSE [m1 EXCEPT !.rx = 0]
      [] m.state = "TX_DATA" ->
            LET m1 == [m EXCEPT
                         !.registers[(TXB0_SIDH + 5 + Len(m.txData)) % 256] = txByte,
                         !.txData = Append(@, txByte)]
            IN  IF Len(m1.txData) = m1.txDlc
                THEN emitCanFrame(m1)
                ELSE [m1 EXCEPT !.rx = 0]
      [] m.state = "READ_ADDR" ->
            [m EXCEPT !.register = txByte, !.state = "READ_DATA", !.rx = 0]
      [] m.state = "READ_DATA" ->
            IF isInstruction(txByte)
            THEN handleInstruction(m, txByte)
            ELSE [m EXCEPT !.rx = m.registers[m.register % 256],
                           !.register = incrementRegister(m.register)]
      [] m.state = "BIT_MODIFY_ADDR" ->
            [m EXCEPT !.register = txByte, !.state = "BIT_MODIFY_MASK", !.rx = 0]
      [] m.state = "BIT_MODIFY_MASK" ->
            [m EXCEPT !.bitModifyMask = txByte, !.state = "BIT_MODIFY_DATA",
                      !.rx = 0]
      [] m.state = "BIT_MODIFY_DATA" ->
            LET addr == m.register % 256
                oldVal == m.registers[addr]
                m1 == [m EXCEPT !.registers[addr] =
                          BitOr(AndNot(oldVal, m.bitModifyMask),
                                BitAnd(txByte, m.bitModifyMask))]
                m2 == IF addr = CANINTF
                      THEN tryLoadNextRxFrame(updateIntPin(m1))
                      ELSE m1
            IN  [m2 EXCEPT !.state = "IDLE", !.rx = 0]
      [] m.state = "READ_STATUS_DUMMY" ->
            [m EXCEPT !.state = "IDLE", !.rx = computeStatus(m)]

\* McpDecoder.decode, the TX-frame callback being McpIO's with the
\* Cs3Handler that returns a HandleResult: the two states that can emit a
\* frame, and decode's other states as they are
decodeResult(m, txByte) ==
    CASE m.state = "TX_HEADER" ->
            LET m1 == [m EXCEPT
                         !.registers[(TXB0_SIDH + Len(m.txHeader)) % 256] = txByte,
                         !.txHeader = Append(@, txByte)]
            IN  IF Len(m1.txHeader) = 5
                THEN LET m2 == [m1 EXCEPT !.txDlc = BitAnd(m1.txHeader[5], 15)]
                     IN  IF m2.txDlc = 0
                         THEN emitCanFrameResult(m2)
                         ELSE [m2 EXCEPT !.txData = <<>>, !.state = "TX_DATA",
                                         !.rx = 0]
                ELSE [m1 EXCEPT !.rx = 0]
      [] m.state = "TX_DATA" ->
            LET m1 == [m EXCEPT
                         !.registers[(TXB0_SIDH + 5 + Len(m.txData)) % 256] = txByte,
                         !.txData = Append(@, txByte)]
            IN  IF Len(m1.txData) = m1.txDlc
                THEN emitCanFrameResult(m1)
                ELSE [m1 EXCEPT !.rx = 0]
      [] OTHER -> decode(m, txByte)

-----------------------------------------------------------------------------
(* State machine                                                            *)

NoFrame == <<>>

\* The decoder as it stands, with nothing yet produced by the operation
Cur ==
    [state |-> state, register |-> register, bitModifyMask |-> bitModifyMask,
     txHeader |-> txHeader, txData |-> txData, txDlc |-> txDlc,
     registers |-> registers, rxQueue |-> rxQueue,
     intPinAsserted |-> intPinAsserted, trainLights |-> trainLights,
     rx |-> 0, frame |-> NoFrame, intCalls |-> <<>>, loads |-> <<>>,
     queued |-> <<>>, calls |-> <<>>, result |-> <<>>, seen |-> <<>>]

IsPrefix(s, t) == Len(s) <= Len(t) /\ SubSeq(t, 1, Len(s)) = s
LoadedFrames(m) == [i \in 1..Len(m.loads) |-> m.loads[i].frame]

\* The latest LIGHT command per train after the frames dispatched in an
\* operation: "on" / "off" by data[5], "short" when the frame has no data[5]
SeenAfter(seen, frames) ==
    IF frames = <<>> \/ decodeCommand(frames[1]) # LIGHT_CMD THEN seen
    ELSE LET data == frames[1].data
             trainId == readId(data)
             kind == IF Len(data) < 6 THEN "short"
                     ELSE IF data[6] # 0 THEN "on" ELSE "off"
         IN  [t \in (DOMAIN seen) \cup {trainId} |->
                 IF t = trainId THEN kind ELSE seen[t]]

\* The decoder becomes m; the observers record what the operation did and
\* the arguments it was given
CommitArgs(m, op, byte, args) ==
    /\ LET expect == fifoExpect \o m.queued
           loaded == LoadedFrames(m)
       IN  IF IsPrefix(loaded, expect)
           THEN /\ fifoExpect' = SubSeq(expect, Len(loaded) + 1, Len(expect))
                /\ fifoOk' = fifoOk
           ELSE /\ fifoExpect' = expect
                /\ fifoOk' = FALSE
    /\ state' = m.state
    /\ register' = m.register
    /\ bitModifyMask' = m.bitModifyMask
    /\ txHeader' = m.txHeader
    /\ txData' = m.txData
    /\ txDlc' = m.txDlc
    /\ registers' = m.registers
    /\ rxQueue' = m.rxQueue
    /\ intPinAsserted' = m.intPinAsserted
    /\ trainLights' = m.trainLights
    /\ lightSeen' = SeenAfter(lightSeen, m.frame)
    /\ intLine' = IF m.intCalls = <<>> THEN intLine
                  ELSE m.intCalls[Len(m.intCalls)]
    /\ last' = [op |-> op, byte |-> byte, rx |-> m.rx, frame |-> m.frame,
                intCalls |-> m.intCalls, loads |-> m.loads, queued |-> m.queued,
                from |-> state, calls |-> m.calls, result |-> m.result,
                seen |-> m.seen, args |-> args]

Commit(m, op, byte) == CommitArgs(m, op, byte, <<>>)

Init ==
    /\ state = "IDLE"
    /\ register = 0
    /\ bitModifyMask = 0
    /\ txHeader = <<>>
    /\ txData = <<>>
    /\ txDlc = 0
    /\ registers = [a \in Byte |-> 0]
    /\ rxQueue = <<>>
    /\ intPinAsserted = FALSE
    /\ sensorStates = <<>>
    /\ trainLights = <<>>
    /\ lightSeen = <<>>
    /\ intLine = FALSE
    /\ last = [op |-> "init", byte |-> 0, rx |-> 0, frame |-> NoFrame,
               intCalls |-> <<>>, loads |-> <<>>, queued |-> <<>>,
               from |-> "IDLE", calls |-> <<>>, result |-> <<>>,
               seen |-> <<>>, args |-> <<>>]
    /\ burst = 0
    /\ fifoExpect = <<>>
    /\ fifoOk = TRUE

\* One input byte: McpIO's 'data' handler calling decoder.decode(byte)
Step(b) ==
    /\ Commit(decode(Cur, b), "step", b)
    /\ burst' = IF state \in {"WRITE_DATA", "READ_DATA"} /\ ~isInstruction(b)
                THEN burst + 1 ELSE 0
    /\ UNCHANGED sensorStates

\* One input byte, the Cs3Handler being the one that returns a HandleResult
StepResult(b) ==
    /\ Commit(decodeResult(Cur, b), "step", b)
    /\ burst' = IF state \in {"WRITE_DATA", "READ_DATA"} /\ ~isInstruction(b)
                THEN burst + 1 ELSE 0
    /\ UNCHANGED sensorStates

\* One frame handed to the dispatcher: Cs3Handler.handleTxFrame(frame)
Dispatch(frame) ==
    LET result == handleTxFrameResult(trainLights, frame)
        m == [Cur EXCEPT !.frame = <<frame>>,
                         !.trainLights = result.trainLights,
                         !.calls = result.calls,
                         !.result = <<[immediate |-> result.immediate,
                                       delayed |-> result.delayed]>>]
    IN  /\ Commit(m, "dispatch", 0)
        /\ UNCHANGED <<sensorStates, burst>>

\* One call of Cs3Handler.makeSensorEvent; the frame it returns is recorded
MakeEvent(sensorId, oldState, newState) ==
    /\ last' = [op |-> "event", byte |-> 0, rx |-> 0,
                frame |-> <<makeSensorEvent(sensorId, oldState, newState)>>,
                intCalls |-> <<>>, loads |-> <<>>, queued |-> <<>>,
                from |-> state, calls |-> <<>>, result |-> <<>>,
                seen |-> <<>>, args |-> <<sensorId, oldState, newState>>]
    /\ UNCHANGED <<state, register, bitModifyMask, txHeader, txData, txDlc,
                   registers, rxQueue, intPinAsserted, sensorStates,
                   trainLights, lightSeen, intLine, burst, fifoExpect, fifoOk>>

\* The elements of sequence s that satisfy no membership in sequence t
Range(s) == {s[i] : i \in 1..Len(s)}
RECURSIVE SeqMinus(_, _)
SeqMinus(s, t) ==
    IF s = <<>> THEN <<>>
    ELSE IF Head(s) \in Range(t) THEN SeqMinus(Tail(s), t)
         ELSE <<Head(s)>> \o SeqMinus(Tail(s), t)

\* currentStates as pollSensors builds it from the triggered sensor ids the
\* controller enumerates, train by train: a Map, so each id is held once, at
\* the place of its first set.
RECURSIVE currentStates(_)
currentStates(triggered) ==
    IF triggered = <<>> THEN <<>>
    ELSE <<Head(triggered)>>
         \o currentStates(SelectSeq(Tail(triggered),
                                    LAMBDA id : id # Head(triggered)))

\* Faulty variant of pollEvents: released sensors are not reported
pollEventsNoRelease(current, previous) ==
    LET triggered == SeqMinus(current, previous)
    IN  [i \in 1..Len(triggered) |-> makeSensorEvent(triggered[i], FALSE, TRUE)]

\* The events of one poll tick; current holds the keys of currentStates and
\* previous those of sensorStates, each in its Map's order.
pollEvents(current, previous) ==
    LET triggered == SeqMinus(current, previous)
        released  == SeqMinus(previous, current)
    IN  [i \in 1..Len(triggered) |-> makeSensorEvent(triggered[i], FALSE, TRUE)]
        \o [i \in 1..Len(released) |-> makeSensorEvent(released[i], TRUE, FALSE)]

\* One timer tick: McpIO.pollSensors
PollSensors(triggered) ==
    LET current == currentStates(triggered)
        events == pollEvents(current, sensorStates)
        m == IF Len(events) > 0 THEN queueRxFrames(Cur, events) ELSE Cur
    IN  /\ CommitArgs(m, "poll", 0, <<triggered>>)
        /\ sensorStates' = current
        /\ UNCHANGED burst

\* The readings among which a tick may come while the traffic is bounded:
\* those whose events still fit a queue of MaxQueue frames.
Ticks(readings) ==
    {triggered \in readings :
        Len(rxQueue) + Len(pollEvents(currentStates(triggered), sensorStates))
            <= MaxQueue}

\* A user of the decoder class storing a register directly.  McpIO never
\* does: nothing under src/ calls setRegister or getRegister.
SetRegister(addr, value) ==
    /\ CommitArgs(setRegister(Cur, addr, value), "setRegister", 0,
                  <<addr, value>>)
    /\ UNCHANGED <<sensorStates, burst>>

\* A user of the decoder class reading a register directly
GetRegister(addr) ==
    /\ CommitArgs([Cur EXCEPT !.rx = getRegister(Cur, addr)], "getRegister", 0,
                  <<addr>>)
    /\ UNCHANGED <<sensorStates, burst>>

-----------------------------------------------------------------------------
(* Inputs.  The host's bytes are drawn from small sets that depend on where *)
(* the transaction stands; the sensor poller's readings from SensorReadings.*)

Opcodes == {INSTRUCTION_WRITE, INSTRUCTION_READ, INSTRUCTION_BIT_MODIFY,
            INSTRUCTION_READ_STATUS}

\* What the controller enumerates at a tick: nothing, sensor 42 under one
\* train, or sensor 42 under two trains
Sensors == <<42>>
SensorReadings == {<<>>, Sensors, Sensors \o Sensors}

\* Interrupt / RX traffic: stores to CANINTE and CANINTF, and two TX frames
\* with DLC 0 (SYSTEM: one ACK; SWITCH: two ACKs).
RxInput ==
    CASE state = "IDLE"              -> Opcodes \cup {0}
      [] state = "WRITE_ADDR"        ->
            {CANINTE, CANINTF}
            \cup (IF Len(rxQueue) + 2 <= MaxQueue THEN {TXB0_SIDH} ELSE {})
      [] state = "WRITE_DATA"        ->
            Opcodes
            \cup (IF burst < MaxBurst /\ register = CANINTE THEN {0, 1, 4} ELSE {})
            \cup (IF burst < MaxBurst /\ register = CANINTF THEN {0, 1} ELSE {})
      [] state = "TX_HEADER"         ->
            CASE Len(txHeader) = 1 -> {0, 170}
              [] OTHER             -> {0}
      [] state = "TX_DATA"           -> {0}
      [] state = "READ_ADDR"         -> {CANINTF}
      [] state = "READ_DATA"         ->
            Opcodes \cup (IF burst < MaxBurst THEN {0} ELSE {})
      [] state = "BIT_MODIFY_ADDR"   -> {CANINTE, CANINTF}
      [] state = "BIT_MODIFY_MASK"   -> {1}
      [] state = "BIT_MODIFY_DATA"   -> {0, 1}
      [] state = "READ_STATUS_DUMMY" -> {0}

RxNext ==
    \/ \E b \in RxInput : Step(b)
    \/ \E triggered \in Ticks(SensorReadings) : PollSensors(triggered)

SpecRx == Init /\ [][RxNext]_vars

\* The same host traffic, the Cs3Handler being the one that returns a
\* HandleResult
ReplyNext == \E b \in RxInput : StepResult(b)

SpecReply == Init /\ [][ReplyNext]_vars

\* Direct register access next to SPI traffic and sensor polls: stores to
\* CANINTE and CANINTF by WRITE, and setRegister / getRegister on CANINTF,
\* CANINTE and TXB1CTRL, with an address and a value beyond one byte.
SetHostInput ==
    CASE state = "IDLE"       -> {INSTRUCTION_WRITE, 0}
      [] state = "WRITE_ADDR" -> {CANINTE, CANINTF}
      [] state = "WRITE_DATA" -> IF burst = 0 THEN {0, 1} ELSE {INSTRUCTION_WRITE}
      [] OTHER                -> {}

SetAddrs == {CANINTF, CANINTE, TXB1CTRL, 256 + CANINTF}
SetValues == {0, 1, 8, 257}

SetNext ==
    \/ \E b \in SetHostInput : Step(b)
    \/ \E triggered \in Ticks(SensorReadings) : PollSensors(triggered)
    \/ \E addr \in SetAddrs, value \in SetValues : SetRegister(addr, value)
    \/ \E addr \in SetAddrs : GetRegister(addr)

SpecSet == Init /\ [][SetNext]_vars

\* A direct store changes the addressed register only: no interrupt
\* callback, no RX load, the cached interrupt state and the RX queue as
\* they were.
SetRegisterStoresOnly ==
    [][last'.op = "setRegister"
       => /\ registers' = [registers EXCEPT
                             ![last'.args[1] % 256] = last'.args[2] % 256]
          /\ last'.intCalls = <<>>
          /\ last'.loads = <<>>
          /\ intPinAsserted' = intPinAsserted
          /\ rxQueue' = rxQueue
          /\ state' = state
          /\ register' = register]_vars

\* A direct read returns the register and changes nothing
GetRegisterReads ==
    [][last'.op = "getRegister"
       => /\ last'.rx = registers[last'.args[1] % 256]
          /\ registers' = registers
          /\ rxQueue' = rxQueue
          /\ intPinAsserted' = intPinAsserted]_vars

\* Reached by a direct store only: RX0IF clear while a frame waits in the
\* queue, the interrupt line still asserted
DirectClearLeavesQueue ==
    /\ last.op = "setRegister"
    /\ rxQueue # <<>>
    /\ registers[CANINTF] % 2 = 0
    /\ intPinAsserted

\* Reached by a direct store only: CANINTF & CANINTE non-zero with the
\* interrupt line de-asserted and no callback made
DirectSetKeepsLine ==
    /\ last.op = "setRegister"
    /\ registers[CANINTF] = 1
    /\ registers[CANINTE] = 1
    /\ ~intPinAsserted
    /\ intLine = FALSE

\* TX traffic: WRITE transactions to TXB0SIDH with varied headers and DLC
\* 0, 5, 8 and 11; data byte k is 16 + k, except that byte 1 is 2 (the value
\* of the WRITE opcode); after the header bytes 0x00, 0xAA, 0x12 the bytes
\* 3 and 4 can be the READ_STATUS and BIT_MODIFY opcode values.  A WRITE to
\* TXB0CTRL can run on into TXB0SIDH.
TxInput ==
    CASE state = "IDLE"       ->
            {0} \cup (IF Len(rxQueue) < MaxTxQueue THEN {INSTRUCTION_WRITE} ELSE {})
      [] state = "WRITE_ADDR" ->
            (IF Len(rxQueue) < MaxTxQueue THEN {TXB0_SIDH} ELSE {})
            \cup (IF last.from = "IDLE" THEN {TXB0CTRL} ELSE {})
      [] state = "WRITE_DATA" ->
            {INSTRUCTION_WRITE} \cup (IF burst < MaxBurst THEN {85} ELSE {})
      [] state = "TX_HEADER"  ->
            CASE Len(txHeader) = 0 -> {0, 255}
              [] Len(txHeader) = 1 -> {170, 255}
              [] Len(txHeader) = 2 -> {18, 255}
              [] Len(txHeader) = 3 ->
                    {255} \cup (IF txHeader = <<0, 170, 18>>
                                THEN {INSTRUCTION_READ_STATUS} ELSE {})
              [] OTHER             ->
                    {0, 72, 11} \cup (IF txHeader[4] = INSTRUCTION_READ_STATUS
                                      THEN {INSTRUCTION_BIT_MODIFY} ELSE {})
      [] state = "TX_DATA"    ->
            IF Len(txData) = 1 THEN {INSTRUCTION_WRITE} ELSE {16 + Len(txData)}
      [] OTHER                -> {}

TxNext == \E b \in TxInput : Step(b)

SpecTx == Init /\ [][TxNext]_vars

\* Register traffic: WRITE bursts over the TXBnCTRL registers and CANINTF
\* (TXB0CTRL also reached by auto-increment from the address below it),
\* BIT_MODIFY of TXB0CTRL bit 3, READ, READ_STATUS, and short TX frames;
\* between transactions the bytes 0 and 255 arrive as well.
RegInput ==
    CASE state = "IDLE"              -> Opcodes \cup {0, 255}
      [] state = "WRITE_ADDR"        ->
            {TXB0CTRL - 1, TXB0CTRL, TXB1CTRL, TXB2CTRL, CANINTF}
            \cup (IF Len(rxQueue) < MaxTxQueue THEN {TXB0_SIDH} ELSE {})
      [] state = "WRITE_DATA"        ->
            Opcodes
            \cup (IF burst >= MaxBurst THEN {}
                  ELSE CASE register = TXB0CTRL - 1 -> {0}
                         [] register = TXB0CTRL     -> {8, 255}
                         [] register = TXB1CTRL     -> {0, 8}
                         [] register = TXB2CTRL     -> {0, 8}
                         [] register = CANINTF      -> {0, 255}
                         [] OTHER                   -> {})
      [] state = "TX_HEADER"         ->
            IF Len(txHeader) = 4 THEN {0, 1} ELSE {0}
      [] state = "TX_DATA"           -> {0}
      [] state = "READ_ADDR"         -> {TXB0CTRL, CANINTF}
      [] state = "READ_DATA"         ->
            Opcodes \cup (IF burst < MaxBurst THEN {0} ELSE {})
      [] state = "BIT_MODIFY_ADDR"   -> {TXB0CTRL}
      [] state = "BIT_MODIFY_MASK"   -> {8}
      [] state = "BIT_MODIFY_DATA"   -> {0, 8}
      [] state = "READ_STATUS_DUMMY" -> {0, INSTRUCTION_READ_STATUS}

RegNext == \E b \in RegInput : Step(b)

\* BIT_MODIFY traffic: transactions on CANINTF, CANINTE and register 5 with
\* masks 0x05 and 0xFF and data 0x00 and 0x03 (address, mask and data can
\* equal an opcode), between sensor polls that fill the RX queue.
BmInput ==
    CASE state = "IDLE"            -> {INSTRUCTION_BIT_MODIFY}
      [] state = "BIT_MODIFY_ADDR" -> {CANINTF, CANINTE, INSTRUCTION_BIT_MODIFY}
      [] state = "BIT_MODIFY_MASK" -> {INSTRUCTION_BIT_MODIFY, 255}
      [] state = "BIT_MODIFY_DATA" -> {0, INSTRUCTION_READ}

BmNext ==
    \/ \E b \in BmInput : Step(b)
    \/ \E triggered \in Ticks(SensorReadings) : PollSensors(triggered)

SpecBm == Init /\ [][BmNext]_vars

\* Burst traffic: one WRITE burst and a READ of the same range, with a
\* sensor poll possible before and between any two bytes.  The byte written
\* at address x is DataAt(x) (bit 3 set, bit 0 clear, alternating with the
\* address).  Bursts start below TXB0CTRL, at CANINTE, at 0xFF, or at the
\* last RXB0 register; the last runs for up to MaxAuto bytes, through 0xFF
\* and 0x00 and on past CANINTF.
DataAt(x) == IF x % 2 = 0 THEN 90 ELSE 88

AutoStarts == {RXB0_SIDH + 12, 255, TXB0CTRL - 1, CANINTE}

\* Of the latest WRITE: its start address, the number of bytes it has
\* stored, that number as it was at the latest RX load during the WRITE (0
\* when there was none), and whether an RX load has happened since the READ
\* began
AutoTrack == IF Len(last.args) = 4 THEN last.args ELSE <<0, 0, 0, FALSE>>

AutoTrackNext(m, written) ==
    LET t == AutoTrack
        loaded == m.loads # <<>>
    IN  CASE state = "WRITE_ADDR" -> <<m.register, 0, 0, FALSE>>
          [] state = "WRITE_DATA" ->
                <<t[1], t[2] + written,
                  IF loaded THEN t[2] + written ELSE t[3], FALSE>>
          [] state \in {"READ_ADDR", "READ_DATA"} ->
                <<t[1], t[2], t[3], t[4] \/ loaded>>
          [] OTHER -> t

AutoInput ==
    CASE state = "IDLE"       -> {INSTRUCTION_WRITE}
      [] state = "WRITE_ADDR" -> AutoStarts
      [] state = "WRITE_DATA" ->
            (IF AutoTrack[2] < (IF AutoTrack[1] = RXB0_SIDH + 12
                                THEN MaxAuto ELSE MaxBurst + 1)
             THEN {DataAt(register)} ELSE {})
            \cup (IF AutoTrack[2] > 0 THEN {INSTRUCTION_READ} ELSE {})
      [] state = "READ_ADDR"  -> {AutoTrack[1]}
      [] state = "READ_DATA"  -> IF burst < AutoTrack[2] THEN {0} ELSE {}
      [] OTHER                -> {}

\* One input byte, with the start and length of the WRITE burst recorded
AutoStep(b) ==
    \E m \in {decode(Cur, b)} :
        /\ CommitArgs(m, "step", b,
                      AutoTrackNext(m, IF state = "WRITE_DATA" /\ ~isInstruction(b)
                                       THEN 1 ELSE 0))
        /\ burst' = IF state \in {"WRITE_DATA", "READ_DATA"} /\ ~isInstruction(b)
                    THEN burst + 1 ELSE 0
        /\ UNCHANGED sensorStates

\* One timer tick: McpIO.pollSensors, with the burst's record kept
AutoPoll(triggered) ==
    LET current == currentStates(triggered)
        events == pollEvents(current, sensorStates)
    IN  \E m \in {IF Len(events) > 0 THEN queueRxFrames(Cur, events) ELSE Cur} :
            /\ CommitArgs(m, "poll", 0,
                          IF state = "WRITE_ADDR" THEN AutoTrack
                          ELSE AutoTrackNext(m, 0))
            /\ sensorStates' = current
            /\ UNCHANGED burst

\* A tick comes before the burst, between any two of its first MaxBurst + 1
\* bytes, and between the bytes that read it back.
AutoNext ==
    \/ \E b \in AutoInput : AutoStep(b)
    \/ /\ AutoTrack[2] <= MaxBurst + 1
       /\ \E triggered \in Ticks(SensorReadings) : AutoPoll(triggered)

SpecAuto == Init /\ [][AutoNext]_vars

\* Interleaved traffic: TX frames with DLC 0 and 2, WRITE bursts at CANINTF,
\* BIT_MODIFY of CANINTF bit 0, READ bursts at CANINTF and READ_STATUS, with
\* a sensor poll possible between any two bytes.
InterInput ==
    CASE state = "IDLE"            -> Opcodes
      [] state = "WRITE_ADDR"      ->
            {CANINTF} \cup (IF Len(rxQueue) < MaxTxQueue THEN {TXB0_SIDH} ELSE {})
      [] state = "WRITE_DATA"      ->
            {INSTRUCTION_BIT_MODIFY} \cup (IF burst < MaxBurst THEN {0} ELSE {})
      [] state = "TX_HEADER"       ->
            CASE Len(txHeader) = 1 -> {0, 32}
              [] Len(txHeader) = 4 -> {0, 2}
              [] OTHER             -> {0}
      [] state = "TX_DATA"         -> {7}
      [] state = "BIT_MODIFY_ADDR" -> {CANINTF}
      [] state = "BIT_MODIFY_MASK" -> {RX0IF}
      [] state = "BIT_MODIFY_DATA" -> {0}
      [] state = "READ_ADDR"       -> {CANINTF}
      [] state = "READ_DATA"       ->
            {INSTRUCTION_BIT_MODIFY} \cup (IF burst < MaxBurst THEN {0} ELSE {})
      [] state = "READ_STATUS_DUMMY" -> {0}

InterNext ==
    \/ \E b \in InterInput : Step(b)
    \/ \E triggered \in Ticks(SensorReadings) : PollSensors(triggered)

SpecInter == Init /\ [][InterNext]_vars

\* A host that clears RX0IF whenever it finds it set, by a WRITE of 0 to
\* CANINTF or by a BIT_MODIFY of CANINTF with mask RX0IF, and otherwise reads
\* the status or idles; sensor polls queue frames at any time.  The host
\* goes on with its bytes (weak fairness of HostStep); the poll timer need
\* not fire.
LiveInput ==
    CASE state = "IDLE"              ->
            IF BitAnd(registers[CANINTF], RX0IF) # 0
            THEN {INSTRUCTION_WRITE, INSTRUCTION_BIT_MODIFY}
            ELSE {0, INSTRUCTION_READ_STATUS}
      [] state = "WRITE_ADDR"        -> {CANINTF}
      [] state = "WRITE_DATA"        ->
            IF burst = 0 THEN {0}
            ELSE IF BitAnd(registers[CANINTF], RX0IF) # 0
                 THEN {INSTRUCTION_WRITE, INSTRUCTION_BIT_MODIFY}
                 ELSE {INSTRUCTION_READ_STATUS}
      [] state = "BIT_MODIFY_ADDR"   -> {CANINTF}
      [] state = "BIT_MODIFY_MASK"   -> {RX0IF}
      [] state = "BIT_MODIFY_DATA"   -> {0}
      [] state = "READ_STATUS_DUMMY" -> {0}
      [] OTHER                       -> {}

\* The frame a behaviour follows: its place in rxQueue (1 = oldest), 0 when
\* none is followed or the one followed has been loaded.  Any frame that an
\* operation leaves waiting in the queue can be picked.
TrackedPos == IF Len(last.args) = 1 THEN last.args[1] ELSE 0

TrackNext(m) ==
    IF TrackedPos > 0
    THEN {TrackedPos - Len(m.loads)}
    ELSE LET waiting == IF Len(m.queued) < Len(m.rxQueue)
                        THEN Len(m.queued) ELSE Len(m.rxQueue)
         IN  {0} \cup ((Len(m.rxQueue) - waiting + 1)..Len(m.rxQueue))

\* One input byte of the host: decoder.decode(byte)
LiveStep(b) ==
    \E m \in {decode(Cur, b)} :
        \E p \in TrackNext(m) :
            /\ CommitArgs(m, "step", b, <<p>>)
            /\ burst' = IF state \in {"WRITE_DATA", "READ_DATA"} /\ ~isInstruction(b)
                        THEN burst + 1 ELSE 0
            /\ UNCHANGED sensorStates

\* One timer tick: McpIO.pollSensors
LivePoll(triggered) ==
    LET current == currentStates(triggered)
        events == pollEvents(current, sensorStates)
    IN  \E m \in {IF Len(events) > 0 THEN queueRxFrames(Cur, events) ELSE Cur} :
            \E p \in TrackNext(m) :
                /\ CommitArgs(m, "poll", 0, <<p>>)
                /\ sensorStates' = current
                /\ UNCHANGED burst

HostStep == \E b \in LiveInput : LiveStep(b)

LiveNext ==
    \/ HostStep
    \/ \E triggered \in Ticks(SensorReadings) : LivePoll(triggered)

SpecLive == Init /\ [][LiveNext]_vars /\ WF_vars(HostStep)

\* Frames for the dispatcher.  CommandFrame gives the frame of a command
\* code with the given data; the id carries the code's upper seven bits and
\* bit 17 of the extended id its lowest bit.
CommandFrame(command, hash, data) ==
    Frame(command \div 2, (command % 2) * 131072 + hash, Len(data), data)

Trains == {1, 2}

Cs3Frames ==
    {CommandFrame(SYSTEM_CMD, 0, <<0, 0, 0, 0, sub>>) : sub \in {0, 1, 2, 3}}
    \cup {CommandFrame(SYSTEM_CMD, 0, <<0, 0, 0, 0>>)}
    \cup {CommandFrame(SPEED_CMD, 0, <<0, 0, 0, t>> \o speed) :
            t \in Trains, speed \in {<<>>, <<1>>, <<0, 0>>, <<1, 244>>}}
    \cup {CommandFrame(DIRECTION_CMD, 0, <<0, 0, 0, t>>) : t \in Trains}
    \cup {CommandFrame(LIGHT_CMD, 0, <<0, 0, 0, t, 0>> \o on) :
            t \in Trains, on \in {<<>>, <<0>>, <<1>>}}
    \cup {CommandFrame(SWITCH_CMD, 0, <<0, 0, hi, lo, position>>) :
            hi \in {48}, lo \in {0, 9}, position \in {0, 1}}
    \cup {CommandFrame(SENSOR_CMD, 65536 + 42, <<0, 0, 0, 42, 0, 1, 0, 0>>),
          Frame(2047, 262143, 0, <<>>), Frame(1029, 196607, 1, <<1>>)}

Cs3Next == \E frame \in Cs3Frames : Dispatch(frame)

SpecCs3 == Init /\ [][Cs3Next]_vars

\* One SPEED frame for train 1 handed to a fresh dispatcher, its speed field
\* data[4..5] ranging over all 16-bit values.
SpeedNext ==
    /\ last.op = "init"
    /\ \E hi \in Byte, lo \in Byte :
            Dispatch(CommandFrame(SPEED_CMD, 0, <<0, 0, 0, 1, hi, lo>>))

SpecSpeed == Init /\ [][SpeedNext]_vars

\* Sensor polling with two sensors, the host clearing CANINTF between ticks
PollReadings == {<<>>, <<42>>, <<7>>, <<42, 7>>, <<7, 42>>, <<42, 42>>,
                 <<7, 42, 7>>}

PollHostInput ==
    CASE state = "IDLE"       -> {INSTRUCTION_WRITE}
      [] state = "WRITE_ADDR" -> {CANINTF}
      [] state = "WRITE_DATA" -> IF burst = 0 THEN {0} ELSE {INSTRUCTION_WRITE}
      [] OTHER                -> {}

PollNext ==
    \/ \E triggered \in Ticks(PollReadings) : PollSensors(triggered)
    \/ \E b \in PollHostInput : Step(b)

SpecPoll == Init /\ [][PollNext]_vars

\* Sensor ids for makeSensorEvent: the powers of two below 2^31 and values
\* with several bytes set
SensorIds ==
    {2 ^ k : k \in 0..30}
    \cup {0, 42, 255, 4660, 65535, 65536 + 42, 305419896, 2147483647}

EventNext ==
    \E sensorId \in SensorIds, oldState \in BOOLEAN, newState \in BOOLEAN :
        MakeEvent(sensorId, oldState, newState)

SpecEvent == Init /\ [][EventNext]_vars

\* One WRITE transaction to TXB0SIDH on a fresh engine: the bytes of a SPEED
\* frame for train 1 at speed 500, each position with an alternative.
DriveInput ==
    CASE state = "IDLE"       ->
            IF last.op = "init" THEN {INSTRUCTION_WRITE} ELSE {}
      [] state = "WRITE_ADDR" -> {TXB0_SIDH}
      [] state = "TX_HEADER"  ->
            CASE Len(txHeader) = 0 -> {14, 0}
              [] Len(txHeader) = 1 -> {64}
              [] Len(txHeader) = 4 -> {70, 68}
              [] OTHER             -> {0}
      [] state = "TX_DATA"    ->
            CASE Len(txData) = 0 -> {0, 1}
              [] Len(txData) = 2 -> {0, 48}
              [] Len(txData) = 3 -> {1, 2}
              [] Len(txData) = 4 -> {1, 0}
              [] Len(txData) = 5 -> {244, 0}
              [] OTHER           -> {0}
      [] OTHER                -> {}

DriveNext == \E b \in DriveInput : Step(b)

SpecDrive == Init /\ [][DriveNext]_vars

SpecReg == Init /\ [][RegNext]_vars

-----------------------------------------------------------------------------
(* Properties                                                               *)

Rx0ifSet == BitAnd(registers[CANINTF], RX0IF) # 0
IntCondition == BitAnd(registers[CANINTF], registers[CANINTE]) # 0
Emitted == last.frame # NoFrame
EmittedFrame == last.frame[1]

\* C1: after every completed operation the interrupt state last reported
\* through the interrupt-change callback equals (CANINTF & CANINTE) != 0,
\* for stores to CANINTE as well as to CANINTF.
C1_ReportedMatchesFlags == intLine = IntCondition

\* C2: RX FIFO: the frames loaded into RXB0 are, in order, the frames that
\* were queued: every load takes the oldest frame queued and not yet loaded,
\* and the frames still waiting are exactly those queued and not yet loaded.
C2_RxFifo == fifoOk /\ fifoExpect = rxQueue

\* C2 witness: a load took a frame while a different, later frame stayed queued.
C2_Witness ==
    /\ Len(last.loads) = 1
    /\ rxQueue # <<>>
    /\ last.loads[1].frame # rxQueue[1]
    /\ last.op = "step"

\* C3: a frame is loaded into RXB0 only when CANINTF.RX0IF is 0, and after
\* every completed operation a non-empty RX queue implies RX0IF is set.
C3_RxLoadPolicy ==
    /\ \A i \in 1..Len(last.loads) : last.loads[i].rx0if = 0
    /\ rxQueue # <<>> => Rx0ifSet

\* C3 witness: a WRITE that reached CANINTF by auto-increment from CANINTE
\* cleared RX0IF, the queue head was loaded in that step and a frame still waits.
C3_Witness ==
    /\ last.op = "step"
    /\ state = "WRITE_DATA"
    /\ burst = 2
    /\ register = CANINTF + 1
    /\ Len(last.loads) = 1
    /\ rxQueue # <<>>
    /\ Rx0ifSet

\* The decoding rule of the RX buffer registers 0x61..
RxReg(k) == registers[RXB0_SIDH + k]
RxDecoded ==
    LET dlc == BitAnd(RxReg(4), 15)
    IN  Frame(BitOr(Shl(RxReg(0), 3), BitAnd(Shr(RxReg(1), 5), 7)),
              BitOr(BitOr(Shl(BitAnd(RxReg(1), 3), 16), Shl(RxReg(2), 8)), RxReg(3)),
              dlc,
              [i \in 1..dlc |-> RxReg(4 + i)])

FrameInRange(f) ==
    /\ f.id \in 0..2047
    /\ f.eid \in 0..262143
    /\ f.dlc \in 0..8
    /\ Len(f.data) = f.dlc
    /\ \A i \in 1..Len(f.data) : f.data[i] \in Byte

\* C4: RX round-trip: right after a frame F (id in 0..0x7FF, eid in
\* 0..0x3FFFF, dlc in 0..8 with dlc data bytes) is loaded into RXB0, RX0IF is
\* set, decoding registers 0x61.. reproduces F, and bit 3 of register 0x62 is set.
C4_RxRoundTrip ==
    \A i \in 1..Len(last.loads) :
        FrameInRange(last.loads[i].frame) =>
            /\ Rx0ifSet
            /\ RxDecoded = last.loads[i].frame
            /\ BitAnd(RxReg(1), 8) = 8

\* C4 witness: the frame with the largest id and eid and 8 data bytes was loaded.
C4_Witness ==
    /\ Len(last.loads) = 1
    /\ FrameInRange(last.loads[1].frame)
    /\ last.loads[1].frame.id = 2047
    /\ last.loads[1].frame.eid = 262143
    /\ last.loads[1].frame.dlc = 8

\* C5: register mirror: when a step returns an emitted TX frame, registers
\* 0x31..0x35 equal the five header bytes written, registers
\* 0x36..0x36+DLC-1 equal the frame's data bytes, and the frame's id, eid and
\* dlc are those the extraction rule gives from the header registers.
C5_RegisterMirror ==
    Emitted =>
        LET f == EmittedFrame
            H(k) == registers[TXB0_SIDH + k]
        IN  /\ [k \in 1..5 |-> H(k - 1)] = txHeader
            /\ [k \in 1..f.dlc |-> H(4 + k)] = f.data
            /\ f.id = BitOr(Shl(H(0), 3), BitAnd(Shr(H(1), 5), 7))
            /\ f.eid = BitOr(BitOr(Shl(BitAnd(H(1), 3), 16), Shl(H(2), 8)), H(3))
            /\ f.dlc = BitAnd(H(4), 15)

\* C6: every emitted CAN frame has a data sequence whose length equals its
\* dlc, also a DLC = 0 frame that follows a frame that carried data.
C6_DataLengthIsDlc == Emitted => Len(EmittedFrame.data) = EmittedFrame.dlc

\* C7: every emitted frame has dlc in 0..8, id in 0..0x7FF and eid in
\* 0..0x3FFFF, and TX data bytes are never stored beyond the TXB0 block
\* 0x31..0x3D (in the TX traffic nothing else stores above 0x3D and below
\* RXB0, so those registers keep their initial 0).
C7_DlcAtMost8 ==
    /\ Emitted => /\ EmittedFrame.dlc \in 0..8
                  /\ EmittedFrame.id \in 0..2047
                  /\ EmittedFrame.eid \in 0..262143
    /\ \A a \in (TXB0_SIDH + 13)..(RXB0_SIDH - 1) : registers[a] = 0

\* C8 as stated: for every input byte the interrupt-change callback is
\* invoked at most once.
C8_AtMostOneCall == last.op = "step" => Len(last.intCalls) <= 1

\* C8 amended: for every input byte the callback is invoked at most twice and
\* the last value passed is the final interrupt state; when it is invoked
\* twice the values are false then true, with an RX frame loaded in that step.
C8_AtMostTwoCalls ==
    last.op = "step" =>
        /\ Len(last.intCalls) <= 2
        /\ Len(last.intCalls) >= 1 =>
              last.intCalls[Len(last.intCalls)] = IntCondition
        /\ Len(last.intCalls) = 2 =>
              /\ last.intCalls = <<FALSE, TRUE>>
              /\ Len(last.loads) = 1

\* C8 witness: a byte stored to CANINTF cleared RX0IF while a frame was
\* queued; the frame was loaded and the callback ran twice in that step.
C8_Witness ==
    /\ last.op = "step"
    /\ state \in {"WRITE_DATA", "IDLE"}
    /\ last.frame = NoFrame
    /\ Len(last.loads) = 1
    /\ last.intCalls = <<FALSE, TRUE>>

\* C9: the interrupt-change callback is invoked only on edges: each value
\* passed differs from the value passed before it, the line starting
\* de-asserted (so the first invocation passes true).
C9_OnlyEdges ==
    [][ LET c == last'.intCalls
        IN  /\ c # <<>> => c[1] # intLine
            /\ \A i \in 1..(Len(c) - 1) : c[i + 1] # c[i] ]_vars

\* C9 witness: a de-assertion was reported (after an earlier assertion).
C9_Witness == last.intCalls = <<FALSE>> /\ intLine = FALSE

\* C10: scenario.  With CANINTE = 0 and frames queued without any callback
\* (one loaded, one waiting), the WRITE of 0x01 to CANINTE makes the callback
\* fire exactly once with true; and the store to CANINTF that then clears
\* RX0IF loads the waiting frame in that step, leaves the interrupt asserted
\* and passes true exactly once.
C10_Scenario ==
    [][ /\ ( /\ state = "WRITE_DATA" /\ register = CANINTE
             /\ registers[CANINTE] = 0
             /\ Rx0ifSet /\ rxQueue # <<>> /\ ~intLine
             /\ last'.op = "step" /\ last'.byte = 1 )
           => last'.intCalls = <<TRUE>>
        /\ ( /\ state = "WRITE_DATA" /\ register = CANINTF
             /\ registers[CANINTE] = 1
             /\ Rx0ifSet /\ rxQueue # <<>>
             /\ last'.op = "step" /\ last'.byte = 0 )
           => /\ LoadedFrames(last') = <<Head(rxQueue)>>
              /\ intLine'
              /\ Len(SelectSeq(last'.intCalls, LAMBDA v : v)) = 1 ]_vars

-----------------------------------------------------------------------------
(* Register access and status                                               *)

BitOf(v, n) == (v \div (2 ^ n)) % 2

\* A WRITE data byte was just stored at TXB0CTRL
WroteTxb0Ctrl ==
    /\ last.op = "step"
    /\ last.from = "WRITE_DATA"
    /\ ~isInstruction(last.byte)
    /\ register = TXB0CTRL + 1

\* C11: a WRITE data byte with bit 3 set stored to TXB0CTRL, addressed
\* directly or reached by auto-increment, leaves TXB0CTRL with bit 3 clear
\* and its other seven bits equal to the byte written; a READ_STATUS that
\* follows returns bit 2 = 0.
C11_TxreqAutoClear ==
    /\ [](WroteTxb0Ctrl /\ BitOf(last.byte, 3) = 1
            => registers[TXB0CTRL] = last.byte - 8)
    /\ [][(state = "READ_STATUS_DUMMY" /\ last.from = "WRITE_DATA"
            /\ register = TXB0CTRL + 1 /\ last'.op = "step")
           => BitOf(last'.rx, 2) = 0]_vars

\* C11 witness: 0xFF was stored to TXB0CTRL as the second byte of a WRITE
\* burst that started at the address below it; TXB0CTRL holds 0xF7.
C11_Witness ==
    /\ WroteTxb0Ctrl
    /\ burst = 2
    /\ last.byte = 255
    /\ registers[TXB0CTRL] = 247

\* The status byte read off the register file, bit by bit
StatusBits ==
    << BitOf(registers[CANINTF], 0), BitOf(registers[CANINTF], 1),
       BitOf(registers[TXB0CTRL], 3), BitOf(registers[CANINTF], 2),
       BitOf(registers[TXB1CTRL], 3), BitOf(registers[CANINTF], 3),
       BitOf(registers[TXB2CTRL], 3), BitOf(registers[CANINTF], 4) >>

\* C12: the byte returned on the dummy byte of READ_STATUS has bits 0..7 =
\* RX0IF, RX1IF, TXB0CTRL.3, TX0IF, TXB1CTRL.3, TX1IF, TXB2CTRL.3, TX2IF;
\* the transaction changes no register and leaves the engine in Idle.
C12_ReadStatus ==
    [][(state = "READ_STATUS_DUMMY" /\ last'.op = "step")
       => /\ \A k \in 0..7 : BitOf(last'.rx, k) = StatusBits[k + 1]
          /\ last'.rx \in Byte
          /\ registers' = registers
          /\ state' = "IDLE"]_vars

\* C12 witness: with bit 3 of TXB1CTRL and TXB2CTRL set by WRITEs and
\* CANINTF = 0, READ_STATUS returned 0x50 (bits 4 and 6).
C12_Witness ==
    /\ last.op = "step"
    /\ last.from = "READ_STATUS_DUMMY"
    /\ registers[TXB1CTRL] = 8
    /\ registers[TXB2CTRL] = 8
    /\ registers[TXB0CTRL] = 0
    /\ registers[CANINTF] = 0
    /\ last.rx = 80

\* C13: every input byte yields one response byte and at most one frame;
\* the response is 0 except for a non-opcode byte in READ_DATA (the register
\* at the current address) and the dummy byte of READ_STATUS (the status).
C13_ByteParity ==
    [][last'.op = "step"
       => /\ last'.rx \in Byte
          /\ Len(last'.frame) <= 1
          /\ last'.rx =
                CASE state = "READ_DATA" /\ ~isInstruction(last'.byte)
                        -> registers[register]
                  [] state = "READ_STATUS_DUMMY"
                        -> StatusBits[1] + 2 * StatusBits[2] + 4 * StatusBits[3]
                           + 8 * StatusBits[4] + 16 * StatusBits[5]
                           + 32 * StatusBits[6] + 64 * StatusBits[7]
                           + 128 * StatusBits[8]
                  [] OTHER -> 0]_vars

\* C13 witness: a dummy byte in READ_DATA returned a non-zero register
C13_Witness ==
    /\ last.op = "step"
    /\ last.from = "READ_DATA"
    /\ ~isInstruction(last.byte)
    /\ last.rx = 247

-----------------------------------------------------------------------------
(* CS3 dispatcher                                                           *)

Dispatched == last.op = "dispatch"
DispatchedFrame == last.frame[1]
\* The command code of a frame: id bits 6..0, then bit 17 of the extended id
CommandOf(f) == 2 * (f.id % 128) + BitOf(f.eid, 17)
\* The frame with bit 16 of the extended id set
WithBit16(f) ==
    [id |-> f.id, eid |-> f.eid + 65536 * (1 - BitOf(f.eid, 16)),
     dlc |-> f.dlc, data |-> f.data]

\* C14: make_ack(f) has f's id, dlc and data and eid = f.eid | 0x10000;
\* decode_command(make_ack(f)) = decode_command(f); make_ack is idempotent.
C14_AckRoundTrip ==
    Dispatched =>
        LET f == DispatchedFrame
        IN  /\ makeAck(f) = WithBit16(f)
            /\ decodeCommand(makeAck(f)) = decodeCommand(f)
            /\ decodeCommand(f) = CommandOf(f)
            /\ makeAck(makeAck(f)) = makeAck(f)

\* C14 witness: a frame with bit 16 clear and bit 17 set was acknowledged
C14_Witness ==
    /\ Dispatched
    /\ BitOf(DispatchedFrame.eid, 16) = 0
    /\ BitOf(DispatchedFrame.eid, 17) = 1
    /\ DispatchedFrame.dlc > 0
    /\ last.result[1].immediate[1].eid = DispatchedFrame.eid + 65536

\* C15: the dispatch result has exactly one immediate frame, the ACK of the
\* frame; the delayed list is empty except for SWITCH, where it holds one
\* frame identical to the immediate ACK.
C15_DispatchResult ==
    Dispatched =>
        LET f == DispatchedFrame
            r == last.result[1]
        IN  /\ r.immediate = <<WithBit16(f)>>
            /\ r.delayed = IF CommandOf(f) = SWITCH_CMD
                           THEN <<WithBit16(f)>> ELSE <<>>

\* C15 witness: a SWITCH frame was dispatched, with a delayed ACK
C15_Witness ==
    /\ Dispatched
    /\ CommandOf(DispatchedFrame) = SWITCH_CMD
    /\ Len(last.result[1].delayed) = 1

\* The train a SPEED / LIGHT frame addresses, and the light its latest LIGHT
\* command asked for (off when there was none or it carried no data[5])
TrainOf(f) == 16777216 * f.data[1] + 65536 * f.data[2] + 256 * f.data[3] + f.data[4]
LatestLightOn(t) == t \in DOMAIN lightSeen /\ lightSeen[t] = "on"
SpeedOf(f) == 256 * (IF Len(f.data) >= 5 THEN f.data[5] ELSE 0)
              + (IF Len(f.data) >= 6 THEN f.data[6] ELSE 0)

\* C16: a SPEED command with DLC > 4 for train t calls
\* setTrainSpeed(t, sim_speed, light) with light the on/off value of the
\* latest LIGHT command for t (data[5] non-zero = on), false if there was
\* none; a LIGHT command makes no controller call and changes the stored
\* flag of no other train.
C16_SpeedUsesLatestLight ==
    /\ [](Dispatched /\ CommandOf(DispatchedFrame) = SPEED_CMD
            /\ DispatchedFrame.dlc > 4
          => /\ Len(last.calls) = 1
             /\ last.calls[1].op = "setTrainSpeed"
             /\ last.calls[1].args[1] = TrainOf(DispatchedFrame)
             /\ last.calls[1].args[3] = LatestLightOn(TrainOf(DispatchedFrame)))
    /\ [][(last'.op = "dispatch" /\ CommandOf(last'.frame[1]) = LIGHT_CMD)
           => /\ last'.calls = <<>>
              /\ \A t \in DOMAIN trainLights :
                    t # TrainOf(last'.frame[1])
                    => t \in DOMAIN trainLights' /\ trainLights'[t] = trainLights[t]
              /\ DOMAIN trainLights' =
                    (DOMAIN trainLights) \cup {TrainOf(last'.frame[1])}]_vars

\* C16 restricted to LIGHT commands that carry data[5]
C16_WithFullLightFrames ==
    /\ [](Dispatched /\ CommandOf(DispatchedFrame) = SPEED_CMD
            /\ DispatchedFrame.dlc > 4
            /\ (TrainOf(DispatchedFrame) \in DOMAIN lightSeen
                 => lightSeen[TrainOf(DispatchedFrame)] # "short")
          => /\ Len(last.calls) = 1
             /\ last.calls[1].op = "setTrainSpeed"
             /\ last.calls[1].args[1] = TrainOf(DispatchedFrame)
             /\ last.calls[1].args[3] = LatestLightOn(TrainOf(DispatchedFrame)))
    /\ [][(last'.op = "dispatch" /\ CommandOf(last'.frame[1]) = LIGHT_CMD)
           => /\ last'.calls = <<>>
              /\ \A t \in DOMAIN trainLights :
                    t # TrainOf(last'.frame[1])
                    => t \in DOMAIN trainLights' /\ trainLights'[t] = trainLights[t]
              /\ DOMAIN trainLights' =
                    (DOMAIN trainLights) \cup {TrainOf(last'.frame[1])}]_vars

\* C19: a SWITCH command with encoded id e in data[0..3] calls
\* changeSwitchDirection exactly once, with switch id e - 0x3000 + 1 and
\* direction Straight when data[4] = 1, Curve when data[4] = 0.
C19_SwitchCall ==
    (Dispatched /\ CommandOf(DispatchedFrame) = SWITCH_CMD
     /\ Len(DispatchedFrame.data) >= 5 /\ DispatchedFrame.data[5] \in {0, 1})
    => /\ Len(last.calls) = 1
       /\ last.calls[1].op = "changeSwitchDirection"
       /\ last.calls[1].args[1] = TrainOf(DispatchedFrame) - 12288 + 1
       /\ last.calls[1].args[2] =
             (IF DispatchedFrame.data[5] = 1 THEN "Straight" ELSE "Curve")

\* C19 witness: encoded id 0x3009, position 0: switch 10 set to Curve
C19_Witness ==
    /\ Dispatched
    /\ CommandOf(DispatchedFrame) = SWITCH_CMD
    /\ DispatchedFrame.data = <<0, 0, 48, 9, 0>>
    /\ last.calls = <<[op |-> "changeSwitchDirection", args |-> <<10, "Curve">>]>>

\* C20: a SYSTEM command calls stop() for data[4] = 0, go() for 1, halt()
\* for 2 and nothing for any other sub-command; the frame is ACKed.
C20_SystemCall ==
    (Dispatched /\ CommandOf(DispatchedFrame) = SYSTEM_CMD)
    => /\ last.calls =
             (IF Len(DispatchedFrame.data) < 5 THEN <<>>
              ELSE CASE DispatchedFrame.data[5] = 0 -> <<[op |-> "stop", args |-> <<>>]>>
                     [] DispatchedFrame.data[5] = 1 -> <<[op |-> "go", args |-> <<>>]>>
                     [] DispatchedFrame.data[5] = 2 -> <<[op |-> "halt", args |-> <<>>]>>
                     [] OTHER -> <<>>)
       /\ last.result[1].immediate = <<WithBit16(DispatchedFrame)>>

\* C20 witness: SYSTEM with sub-command 2 called halt()
C20_Witness ==
    /\ Dispatched
    /\ CommandOf(DispatchedFrame) = SYSTEM_CMD
    /\ DispatchedFrame.data = <<0, 0, 0, 0, 2>>
    /\ last.calls = <<[op |-> "halt", args |-> <<>>]>>

\* The simulator speed a SPEED frame with speed field s is expected to give:
\* 0 for 0, 14 from 1000 on, else the r with r - 1/2 <= 14 s / 1000 < r + 1/2
IsRounded(s, r) ==
    IF s = 0 THEN r = 0
    ELSE IF s >= 1000 THEN r = 14
    ELSE 2000 * r <= 28 * s + 1000 /\ 28 * s + 1000 < 2000 * r + 2000
\* The speed passed to the controller for the SPEED frame with speed field s
SimSpeedFor(s) ==
    handleTxFrameResult(<<>>,
        CommandFrame(SPEED_CMD, 0,
                     <<0, 0, 0, 1, s \div 256, s % 256>>)).calls[1].args[2]

\* C17: for every 16-bit speed s read big-endian from data[4..5] the speed
\* passed to the controller is 0 for s = 0, 14 for s >= 1000, and otherwise
\* round(s * 14 / 1000) with halves rounded up; it lies in 0..14 and is
\* non-decreasing in s; 0, 500, 1000, 1001 give 0, 7, 14, 14.
C17_SpeedMapping ==
    (Dispatched /\ CommandOf(DispatchedFrame) = SPEED_CMD
     /\ Len(DispatchedFrame.data) >= 6)
    => LET s == SpeedOf(DispatchedFrame)
           r == last.calls[1].args[2]
       IN  /\ Len(last.calls) = 1
           /\ last.calls[1].op = "setTrainSpeed"
           /\ IsRounded(s, r)
           /\ r \in 0..14
           /\ s < 65535 => r <= SimSpeedFor(s + 1)
           /\ s = 500 => r = 7
           /\ s = 1001 => r = 14

\* C17 witness: speed 250, where 250 * 14 / 1000 = 3.5, was mapped to 4
C17_Witness ==
    /\ Dispatched
    /\ CommandOf(DispatchedFrame) = SPEED_CMD
    /\ DispatchedFrame.data = <<0, 0, 0, 1, 0, 250>>
    /\ last.calls = <<[op |-> "setTrainSpeed", args |-> <<1, 4, FALSE>>]>>

-----------------------------------------------------------------------------
(* Scenario: a SPEED frame driven through the SPI engine                    *)

\* The bytes fed so far to an engine that has seen one WRITE to TXB0SIDH
Fed ==
    CASE last.op = "init"     -> <<>>
      [] state = "WRITE_ADDR" -> <<INSTRUCTION_WRITE>>
      [] OTHER                -> <<INSTRUCTION_WRITE, TXB0_SIDH>> \o txHeader
                                 \o (IF state = "TX_HEADER" THEN <<>> ELSE txData)

ScenarioBytes == <<2, 49, 14, 64, 0, 0, 70, 0, 0, 0, 1, 1, 244>>
SpeedFrameBytes == <<2, 49, 0, 64, 0, 0, 70, 0, 0, 0, 1, 1, 244>>

\* C18 as stated: the scenario bytes surface exactly one frame, on the last
\* byte, with id 0x70, decoded command 0x04 and data [0,0,0,1,1,0xF4]; the
\* controller observes setTrainSpeed(1, 7, false) and one ACK is returned.
C18_Scenario ==
    /\ (Len(Fed) < 13 /\ IsPrefix(Fed, ScenarioBytes)) => ~Emitted
    /\ Fed = ScenarioBytes =>
          /\ Emitted
          /\ EmittedFrame.id = 112
          /\ CommandOf(EmittedFrame) = 4
          /\ EmittedFrame.data = <<0, 0, 0, 1, 1, 244>>
          /\ last.calls = <<[op |-> "setTrainSpeed", args |-> <<1, 7, FALSE>>]>>
          /\ last.result[1] = <<WithBit16(EmittedFrame)>>

\* C18 amended: the scenario bytes surface exactly one frame, on the last
\* byte, with id 0x72, eid 0, dlc 6 and data [0,0,0,1,1,0xF4]; its decoded
\* command is 0xE4, the controller observes no call, and one ACK with eid
\* 0x10000 is returned.  With header bytes 0x00, 0x40 instead of 0x0E, 0x40
\* the frame has id 2 and command 0x04 and the controller observes
\* setTrainSpeed(1, 7, false).
C18_ScenarioAsDecoded ==
    /\ (Len(Fed) < 13 /\ (IsPrefix(Fed, ScenarioBytes)
                           \/ IsPrefix(Fed, SpeedFrameBytes))) => ~Emitted
    /\ Fed = ScenarioBytes =>
          /\ Emitted
          /\ EmittedFrame = [id |-> 114, eid |-> 0, dlc |-> 6,
                             data |-> <<0, 0, 0, 1, 1, 244>>]
          /\ CommandOf(EmittedFrame) = 228
          /\ last.calls = <<>>
          /\ last.result[1] =
                <<[id |-> 114, eid |-> 65536, dlc |-> 6,
                   data |-> <<0, 0, 0, 1, 1, 244>>]>>
    /\ Fed = SpeedFrameBytes =>
          /\ Emitted
          /\ EmittedFrame = [id |-> 2, eid |-> 0, dlc |-> 6,
                             data |-> <<0, 0, 0, 1, 1, 244>>]
          /\ CommandOf(EmittedFrame) = 4
          /\ last.calls = <<[op |-> "setTrainSpeed", args |-> <<1, 7, FALSE>>]>>
          /\ last.result[1] =
                <<[id |-> 2, eid |-> 65536, dlc |-> 6,
                   data |-> <<0, 0, 0, 1, 1, 244>>]>>

\* C18 witness: all thirteen scenario bytes were fed and a frame surfaced
C18_Witness ==
    /\ Fed = ScenarioBytes
    /\ last.op = "step"
    /\ last.byte = 244
    /\ Emitted
    /\ state = "IDLE"

-----------------------------------------------------------------------------
(* Frames that need no action                                               *)

\* A frame the dispatcher only acknowledges: an unknown command, or a SPEED
\* command with DLC <= 4 (a speed query)
NeedsNoAction(f) ==
    \/ CommandOf(f) \notin {SYSTEM_CMD, SPEED_CMD, DIRECTION_CMD, LIGHT_CMD,
                            SWITCH_CMD}
    \/ CommandOf(f) = SPEED_CMD /\ f.dlc <= 4

\* C21: a frame that needs no action is answered with its ACK (bit 16 set)
\* and causes no controller call and no change of the train-light flags.
C21_NoAction ==
    [][(last'.op = "dispatch" /\ NeedsNoAction(last'.frame[1]))
       => /\ last'.result[1].immediate = <<WithBit16(last'.frame[1])>>
          /\ BitOf(last'.result[1].immediate[1].eid, 16) = 1
          /\ last'.calls = <<>>
          /\ trainLights' = trainLights]_vars

\* C21 witness: a speed query for train 1 was dispatched while light flags
\* were stored for both trains
C21_Witness ==
    /\ Dispatched
    /\ DispatchedFrame = [id |-> 2, eid |-> 0, dlc |-> 4, data |-> <<0, 0, 0, 1>>]
    /\ DOMAIN trainLights = {1, 2}
    /\ trainLights[1]
    /\ last.calls = <<>>

-----------------------------------------------------------------------------
(* Sensor events                                                            *)

\* The sensor event frame expected for (sid, old, new)
SensorFrame(sid, old, new) ==
    [id |-> 8, eid |-> 196608 + (sid % 65536), dlc |-> 8,
     data |-> << (sid \div 16777216) % 256, (sid \div 65536) % 256,
                 (sid \div 256) % 256, sid % 256,
                 IF old THEN 1 ELSE 0, IF new THEN 1 ELSE 0, 0, 0 >>]

\* C22: make_sensor_event(sid, old, new) has id 0x08, eid 0x30000 |
\* (sid & 0xFFFF), dlc 8 and data = [sid big-endian, old, new, 0, 0]; its
\* decoded command is 0x11 and data[0..3] read big-endian give back sid.
C22_SensorEvent ==
    last.op = "event" =>
        LET f == last.frame[1]
        IN  /\ f = SensorFrame(last.args[1], last.args[2], last.args[3])
            /\ decodeCommand(f) = SENSOR_CMD
            /\ CommandOf(f) = 17
            /\ readId(f.data) = last.args[1]
            /\ TrainOf(f) = last.args[1]

\* C22 witness: the event of sensor 0x12345678 going from triggered to idle
C22_Witness ==
    /\ last.op = "event"
    /\ last.args = <<305419896, TRUE, FALSE>>
    /\ last.frame[1].eid = 196608 + 22136
    /\ last.frame[1].data = <<18, 52, 86, 120, 1, 0, 0, 0>>

\* The frames of a sequence
FramesOf(q) == {q[i] : i \in 1..Len(q)}

\* C23: a poll tick queues, in one batch, exactly one event per sensor whose
\* triggered state differs from the previous snapshot: (false, true) for a
\* newly triggered one, (true, false) for a newly released one, none for an
\* unchanged one; the snapshot then equals the current triggered set.  So a
\* sensor's events alternate, starting with a trigger, and a tick without
\* change queues nothing.
C23_PollEvents ==
    [][last'.op = "poll"
       => LET before == Range(sensorStates)
              now == Range(last'.args[1])
              batch == last'.queued
          IN  /\ FramesOf(batch) =
                    {SensorFrame(sid, FALSE, TRUE) : sid \in now \ before}
                    \cup {SensorFrame(sid, TRUE, FALSE) : sid \in before \ now}
              /\ Len(batch) = Cardinality((now \ before) \cup (before \ now))
              /\ Range(sensorStates') = now
              /\ Len(sensorStates') = Cardinality(now)
              /\ \/ rxQueue' = rxQueue \o batch
                 \/ /\ rxQueue \o batch # <<>>
                    /\ rxQueue' = Tail(rxQueue \o batch)
              /\ (now = before => /\ batch = <<>>
                                  /\ rxQueue' = rxQueue
                                  /\ registers' = registers)]_vars

\* C23 witness: in one tick sensor 7, enumerated under two trains, was newly
\* triggered while sensor 42 stayed triggered; one event was queued and the
\* snapshot holds each sensor once
C23_Witness ==
    /\ last.op = "poll"
    /\ last.args = << <<7, 42, 7>> >>
    /\ last.queued = <<SensorFrame(7, FALSE, TRUE)>>
    /\ sensorStates = <<7, 42>>

-----------------------------------------------------------------------------
(* Reply path and emission order                                            *)

\* The reply frames expected for a decoded frame: its ACK, twice for SWITCH
RepliesTo(f) ==
    IF CommandOf(f) = SWITCH_CMD THEN <<WithBit16(f), WithBit16(f)>>
    ELSE <<WithBit16(f)>>

\* C24: the dispatcher's reply frames for a decoded frame are pushed into
\* the RX queue in that same step; the ACK is loaded into RXB0 at once if
\* RX0IF is clear, otherwise it waits in the queue and is loaded, in order,
\* when the host clears RX0IF; the two ACKs of a SWITCH are loaded one
\* after the other.
C24_ReplyPath ==
    /\ [][(last'.op = "step" /\ last'.frame # NoFrame)
           => LET replies == RepliesTo(last'.frame[1])
                  waiting == rxQueue \o replies
              IN  /\ last'.queued = replies
                  /\ IF BitOf(registers[CANINTF], 0) = 0
                     THEN /\ LoadedFrames(last') = <<Head(waiting)>>
                          /\ rxQueue' = Tail(waiting)
                     ELSE /\ last'.loads = <<>>
                          /\ rxQueue' = waiting]_vars
    /\ [][(last'.op = "step" /\ last'.frame = NoFrame /\ last'.loads # <<>>)
           => /\ last'.from \in {"WRITE_DATA", "BIT_MODIFY_DATA"}
              /\ register % 256 = CANINTF
              /\ rxQueue # <<>>
              /\ LoadedFrames(last') = <<Head(rxQueue)>>
              /\ rxQueue' = Tail(rxQueue)]_vars

\* C25: when a TX frame is emitted, TX0IF is set and the interrupt line is
\* recomputed before the frame reaches the consumer and before the step
\* returns, and the decoder is in Idle when the step returns; with TX0IE
\* set and the line de-asserted, the asserted = true callback precedes the
\* dispatch of the frame.
C25_EmitOrder ==
    [][(last'.op = "step" /\ last'.frame # NoFrame)
       => /\ Len(last'.seen) = 1
          /\ BitOf(last'.seen[1].canintf, 2) = 1
          /\ last'.seen[1].canintf = registers[CANINTF] + 4 * (1 - BitOf(registers[CANINTF], 2))
          /\ last'.seen[1].intPinAsserted =
                (\E k \in 0..7 : BitOf(last'.seen[1].canintf, k) = 1
                                 /\ BitOf(registers[CANINTE], k) = 1)
          /\ BitOf(registers'[CANINTF], 2) = 1
          /\ state' = "IDLE"
          /\ (BitOf(registers[CANINTE], 2) = 1 /\ ~intPinAsserted)
                => /\ last'.seen[1].intCalls = <<TRUE>>
                   /\ last'.intCalls[1] = TRUE]_vars

\* C25 witness: a frame was emitted with TX0IE set and the line de-asserted;
\* the consumer found the line asserted
C25_Witness ==
    /\ last.op = "step"
    /\ last.frame # NoFrame
    /\ registers[CANINTE] = 4
    /\ last.seen[1].intCalls = <<TRUE>>
    /\ last.intCalls = <<TRUE>>
    /\ state = "IDLE"

-----------------------------------------------------------------------------
(* Framing of transactions                                                  *)

OpcodeValues == {2, 3, 5, 160}
Stepped == last'.op = "step"
NoFrameOut == last'.frame = NoFrame
FrameOut == Len(last'.frame) = 1

\* C26: after WRITE and address 0x31 the engine takes exactly 5 + (H[4] &
\* 0x0F) further bytes as frame bytes whatever their values, surfaces one
\* frame, on the last of them, and is then in Idle; no frame surfaces on any
\* other byte, and a WRITE that reaches 0x31 by auto-increment emits none.
C26_TxFraming ==
    /\ [][(Stepped /\ state = "WRITE_ADDR" /\ last'.byte = 49)
           => state' = "TX_HEADER" /\ txHeader' = <<>> /\ NoFrameOut]_vars
    /\ [][(Stepped /\ state = "TX_HEADER")
           => /\ txHeader' = Append(txHeader, last'.byte)
              /\ IF Len(txHeader) < 4
                 THEN state' = "TX_HEADER" /\ NoFrameOut
                 ELSE IF last'.byte % 16 = 0
                      THEN state' = "IDLE" /\ FrameOut
                      ELSE state' = "TX_DATA" /\ txData' = <<>> /\ NoFrameOut]_vars
    /\ [][(Stepped /\ state = "TX_DATA")
           => /\ txData' = Append(txData, last'.byte)
              /\ Len(txData') <= txHeader[5] % 16
              /\ IF Len(txData') < txHeader[5] % 16
                 THEN state' = "TX_DATA" /\ NoFrameOut
                 ELSE state' = "IDLE" /\ FrameOut]_vars
    /\ [][(Stepped /\ state \notin {"TX_HEADER", "TX_DATA"}) => NoFrameOut]_vars
    /\ [][(Stepped /\ state = "WRITE_DATA" /\ register = 49
            /\ last'.byte \notin OpcodeValues)
           => state' = "WRITE_DATA" /\ NoFrameOut
              /\ registers'[49] = last'.byte]_vars

\* C26 witness: a frame surfaced on the fifth data byte of a frame whose
\* header and data hold the byte values 0xA0, 0x05 and 0x02
C26_Witness ==
    /\ last.op = "step"
    /\ last.from = "TX_DATA"
    /\ Emitted
    /\ txHeader[4] = 160
    /\ txHeader[5] = 5
    /\ txData = <<16, 2, 18, 19, 20>>
    /\ state = "IDLE"

FirstStateOf(opcode) ==
    CASE opcode = 2   -> "WRITE_ADDR"
      [] opcode = 3   -> "READ_ADDR"
      [] opcode = 5   -> "BIT_MODIFY_ADDR"
      [] opcode = 160 -> "READ_STATUS_DUMMY"

\* C27: in WriteData and ReadData a byte equal to an opcode is dispatched as
\* that instruction: no register is written, the address does not advance,
\* the response is 0 and the next state is the instruction's first state.
C27_OpcodeInBurst ==
    [][(Stepped /\ state \in {"WRITE_DATA", "READ_DATA"}
        /\ last'.byte \in OpcodeValues)
       => /\ registers' = registers
          /\ register' = register
          /\ last'.rx = 0
          /\ NoFrameOut
          /\ state' = FirstStateOf(last'.byte)]_vars

\* C27 witness: the byte 0xA0 arrived in a WRITE burst positioned at CANINTF
\* after a data byte had been stored there
C27_Witness ==
    /\ last.op = "step"
    /\ last.from = "WRITE_DATA"
    /\ last.byte = 160
    /\ register = CANINTF + 1
    /\ registers[CANINTF] # 0
    /\ state = "READ_STATUS_DUMMY"

\* C28: in Idle a byte that is not an opcode is ignored: the engine stays in
\* Idle, responds 0, surfaces no frame, makes no interrupt callback and
\* leaves the registers and the RX queue unchanged.
C28_IdleIgnores ==
    [][(Stepped /\ state = "IDLE" /\ last'.byte \notin OpcodeValues)
       => /\ state' = "IDLE"
          /\ last'.rx = 0
          /\ NoFrameOut
          /\ last'.intCalls = <<>>
          /\ registers' = registers
          /\ rxQueue' = rxQueue
          /\ intPinAsserted' = intPinAsserted]_vars

\* C28 witness: the byte 0xFF arrived in Idle while a frame waited in the RX
\* queue behind a loaded RXB0
C28_Witness ==
    /\ last.op = "step"
    /\ last.from = "IDLE"
    /\ last.byte = 255
    /\ state = "IDLE"
    /\ Rx0ifSet
    /\ Len(rxQueue) > 0

Rxb0Range == RXB0_SIDH .. (RXB0_SIDH + 12)

\* bit k of the result of a bit-modify of old with mask and data
ModifiedBit(old, mask, data, k) ==
    IF BitOf(mask, k) = 1 THEN BitOf(data, k) ELSE BitOf(old, k)

\* C29: BIT_MODIFY takes exactly three bytes after the opcode whatever their
\* values (address, mask, data), stores (old & ~mask) | (data & mask) at the
\* address, changes no other register unless the address is CANINTF (an RX
\* load may then follow), and leaves the engine in Idle.
C29_BitModify ==
    /\ [][(Stepped /\ state = "BIT_MODIFY_ADDR")
           => /\ state' = "BIT_MODIFY_MASK"
              /\ register' = last'.byte
              /\ registers' = registers
              /\ last'.rx = 0 /\ NoFrameOut]_vars
    /\ [][(Stepped /\ state = "BIT_MODIFY_MASK")
           => /\ state' = "BIT_MODIFY_DATA"
              /\ bitModifyMask' = last'.byte
              /\ register' = register
              /\ registers' = registers
              /\ last'.rx = 0 /\ NoFrameOut]_vars
    /\ [][(Stepped /\ state = "BIT_MODIFY_DATA")
           => /\ state' = "IDLE"
              /\ last'.rx = 0 /\ NoFrameOut
              /\ \A a \in Byte \ ({register} \cup Rxb0Range) :
                    registers'[a] = registers[a]
              /\ IF register = CANINTF
                 THEN /\ \A k \in 1..7 :
                           BitOf(registers'[CANINTF], k)
                             = ModifiedBit(registers[CANINTF], bitModifyMask,
                                           last'.byte, k)
                      /\ IF last'.loads # <<>>
                         THEN /\ ModifiedBit(registers[CANINTF], bitModifyMask,
                                             last'.byte, 0) = 0
                              /\ BitOf(registers'[CANINTF], 0) = 1
                              /\ rxQueue # <<>>
                              /\ rxQueue' = Tail(rxQueue)
                         ELSE /\ BitOf(registers'[CANINTF], 0)
                                   = ModifiedBit(registers[CANINTF],
                                                 bitModifyMask, last'.byte, 0)
                              /\ rxQueue' = rxQueue
                              /\ \A a \in Rxb0Range :
                                    registers'[a] = registers[a]
                 ELSE /\ \A k \in 0..7 :
                           BitOf(registers'[register], k)
                             = ModifiedBit(registers[register], bitModifyMask,
                                           last'.byte, k)
                      /\ last'.loads = <<>>
                      /\ rxQueue' = rxQueue
                      /\ \A a \in Rxb0Range \ {register} :
                            registers'[a] = registers[a]]_vars

\* C29 witness: a bit-modify of CANINTF with mask 0x05 and data 0x00 cleared
\* RX0IF while bit 1 stayed set, and the next queued frame was loaded
C29_Witness ==
    /\ last.op = "step"
    /\ last.from = "BIT_MODIFY_DATA"
    /\ register = CANINTF
    /\ bitModifyMask = 5
    /\ last.byte = 0
    /\ last.loads # <<>>
    /\ BitOf(registers[CANINTF], 1) = 1
    /\ state = "IDLE"

\* address of the k-th byte of the burst that started at AutoTrack[1]
AutoAddr(k) == (AutoTrack[1] + k) % 256

\* the k-th non-opcode data byte of a WRITE is stored at (a + k) mod 256
WriteAddressing ==
    [][(Stepped /\ state = "WRITE_DATA" /\ last'.byte \notin OpcodeValues)
       => LET addr == AutoAddr(AutoTrack[2])
          IN  /\ register = addr
              /\ register' = (addr + 1) % 256
              /\ state' = "WRITE_DATA"
              /\ IF addr = TXB0CTRL
                 THEN registers'[addr] = last'.byte - 8 * BitOf(last'.byte, 3)
                 ELSE IF addr = CANINTF
                 THEN registers'[addr] =
                         IF last'.loads # <<>>
                         THEN last'.byte + 1 - BitOf(last'.byte, 0)
                         ELSE last'.byte
                 ELSE registers'[addr] = last'.byte
              /\ \A x \in Byte \ ({addr} \cup
                                    (IF addr = CANINTF THEN Rxb0Range ELSE {})) :
                    registers'[x] = registers[x]]_vars

\* the k-th non-opcode dummy byte of a READ returns the register at
\* (a + k) mod 256
ReadAddressing ==
    [][(Stepped /\ state = "READ_DATA" /\ last'.byte \notin OpcodeValues)
       => /\ register = AutoAddr(burst)
          /\ last'.rx = registers[AutoAddr(burst)]
          /\ register' = (AutoAddr(burst) + 1) % 256
          /\ registers' = registers
          /\ state' = "READ_DATA"]_vars

\* what a READ right after the WRITE returns for the k-th byte written,
\* where the TXB0CTRL and CANINTF registers are excepted
ReadBackAt(k, rx) ==
    LET addr == AutoAddr(k)
        d == DataAt(addr)
    IN  IF addr = TXB0CTRL THEN rx = d - 8 * BitOf(d, 3)
        ELSE IF addr = CANINTF THEN rx \in {d, d + 1 - BitOf(d, 0)}
        ELSE rx = d

\* C30 as stated: WRITE stores its k-th data byte at (a + k) mod 256 and READ
\* returns the register at (a + k) mod 256, wrapping from 0xFF to 0x00, so a
\* READ of the same range right after a WRITE returns the bytes written,
\* except at TXB0CTRL (bit 3 cleared) and at CANINTF when an RX load sets
\* RX0IF.
C30_ReadBack ==
    /\ WriteAddressing
    /\ ReadAddressing
    /\ [][(Stepped /\ state = "READ_DATA" /\ last'.byte \notin OpcodeValues)
           => ReadBackAt(burst, last'.rx)]_vars

\* an RX load happened after the WRITE stored its k-th byte and before the
\* READ reaches it
LoadedSince(k) == k < AutoTrack[3] \/ AutoTrack[4]

\* C30 amended: as C30, and the read-back also excepts the RXB0 registers
\* (0x61..0x6D) when an RX load happened after the WRITE stored them and
\* before the READ reaches them; the load follows a store to CANINTF that
\* leaves RX0IF clear with a frame queued (the WRITE itself, running on
\* through the wrap to CANINTF, makes that store) or a queue_rx between two
\* bytes while RX0IF is clear, and overwrites them with the loaded frame.
C30_ReadBackExceptRxb0 ==
    /\ WriteAddressing
    /\ ReadAddressing
    /\ [][(Stepped /\ state = "READ_DATA" /\ last'.byte \notin OpcodeValues)
           => \/ ReadBackAt(burst, last'.rx)
              \/ AutoAddr(burst) \in Rxb0Range /\ LoadedSince(burst)]_vars

\* C30 witness: a READ that followed a WRITE burst from 0x6D past 0xFF and
\* CANINTF has wrapped and returned the byte written at address 0x00
C30_Witness ==
    /\ last.op = "step"
    /\ last.from = "READ_DATA"
    /\ last.args[1] = RXB0_SIDH + 12
    /\ last.args[2] > 191
    /\ register = 1
    /\ last.rx = DataAt(0)

-----------------------------------------------------------------------------
(* LIGHT frames without data[5]                                             *)

\* C33: a LIGHT command whose frame carries fewer than six data bytes does
\* not set the stored light flag of its train to on, so a later SPEED
\* command for that train does not pass light = true because of it.
C33_ShortLightNotOn ==
    [][(last'.op = "dispatch" /\ CommandOf(last'.frame[1]) = LIGHT_CMD
        /\ Len(last'.frame[1].data) < 6)
       => LET t == TrainOf(last'.frame[1])
          IN  (t \in DOMAIN trainLights' /\ trainLights'[t])
                => (t \in DOMAIN trainLights /\ trainLights[t])]_vars

-----------------------------------------------------------------------------
(* A sensor poll between two bytes of a transaction                         *)

Polled == last'.op = "poll"

\* the TX frame built from the header accumulator h and the data
\* accumulator d
FrameOfBytes(h, d) ==
    [id |-> 8 * h[1] + (h[2] \div 32),
     eid |-> 65536 * (h[2] % 4) + 256 * h[3] + h[4],
     dlc |-> h[5] % 16,
     data |-> d]

\* C31: a queue_rx from a poll tick between two input bytes of a transaction
\* leaves the decoder state, the auto-increment address, the pending
\* bit-modify mask and the TX header and data accumulators unchanged and
\* changes no register outside RXB0 (0x61..0x6D) and CANINTF bit RX0IF; the
\* TX frame of a transaction is built from the accumulators, which only the
\* input bytes extend, so it is the same with and without the queue_rx.
C31_PollLeavesTransaction ==
    /\ [][Polled
           => /\ state' = state
              /\ register' = register
              /\ bitModifyMask' = bitModifyMask
              /\ txHeader' = txHeader
              /\ txData' = txData
              /\ txDlc' = txDlc
              /\ NoFrameOut
              /\ \A a \in Byte \ (Rxb0Range \cup {CANINTF}) :
                    registers'[a] = registers[a]
              /\ \A k \in 1..7 :
                    BitOf(registers'[CANINTF], k) = BitOf(registers[CANINTF], k)
              /\ BitOf(registers'[CANINTF], 0) >= BitOf(registers[CANINTF], 0)
              /\ (registers' # registers) => last'.loads # <<>>]_vars
    /\ [][(Stepped /\ state = "TX_HEADER")
           => txHeader' = Append(txHeader, last'.byte)]_vars
    /\ [][(Stepped /\ state = "TX_DATA")
           => txData' = Append(txData, last'.byte) /\ txHeader' = txHeader]_vars
    /\ [][(Stepped /\ FrameOut)
           => last'.frame[1] = FrameOfBytes(txHeader', txData')]_vars

\* C31 witness: a poll between the first and the second data byte of a TX
\* frame queued a sensor event and loaded it into RXB0
C31_Witness ==
    /\ last.op = "poll"
    /\ last.loads # <<>>
    /\ state = "TX_DATA"
    /\ txHeader = <<0, 32, 0, 0, 2>>
    /\ txData = <<7>>
    /\ Rx0ifSet

-----------------------------------------------------------------------------
(* Delivery of queued RX frames                                             *)

\* C32: if the host clears RX0IF again and again whenever it is set, every
\* frame placed in the RX queue is eventually loaded into RXB0: whichever
\* waiting frame is followed, it is eventually loaded, so no frame stays in
\* the queue forever.
C32_QueueDrains == (TrackedPos > 0) ~> (TrackedPos = 0)

\* C32 witness: the host's WRITE of 0 to CANINTF loaded the frame ahead of
\* the followed one, which now waits first in the queue
C32_Witness ==
    /\ last.op = "step"
    /\ last.from = "WRITE_DATA"
    /\ Len(last.loads) = 1
    /\ TrackedPos = 1
    /\ Len(rxQueue) = 1
    /\ Rx0ifSet

====
